---------------------------- MODULE Spec2Model ----------------------------
(***************************************************************************)
(* A model of gnucashxml.py: the loader that turns a GnuCash XML document  *)
(* into a cross-referenced Book, the Book's read accessors, and the        *)
(* fraction parser.                                                        *)
(*                                                                         *)
(* Text is a sequence of one-character strings, so that splitting,         *)
(* concatenation and formatting are computed and not assumed.  Python's    *)
(* None is the value None below; objects are identified by the order of    *)
(* their construction.                                                     *)
(***************************************************************************)
EXTENDS Integers, Sequences, FiniteSets, TLC

\* ------------------------------------------------------------------------
\* Bounds of the model
\* ------------------------------------------------------------------------

\* numerators -MaxNum..MaxNum and denominators 1..MaxDen of the fractions
MaxNum == 24
MaxDen == 12
\* longest free-form text handed to _parse_number
MaxLen == 4
\* account records of a document
MaxAccounts == 3
\* non-root accounts of a document whose accounts name their parents freely
MaxTree == 3
\* split records of a transaction
MaxSplits == 2
\* commodity declarations and prices of a document
MaxDecls == 2
MaxPrices == 1
\* entry and invoice records of a document
MaxEntries == 3
MaxInvoices == 2
\* slot elements in a frame, and frames nested around a slot
MaxSlots == 2
MaxDepth == 2
\* transactions in a ledger
MaxTrns == 3
\* entries whose tax flag and tax table vary
MaxTaxed == 2

\* ------------------------------------------------------------------------
\* Generic helpers
\* ------------------------------------------------------------------------

Range(s) == {s[i] : i \in 1..Len(s)}

Abs(x) == IF x < 0 THEN -x ELSE x

Zeros(k) == [i \in 1..k |-> 0]

\* ------------------------------------------------------------------------
\* Text and decimal arithmetic (module decimal, as _parse_number uses it)
\* ------------------------------------------------------------------------

Digits == <<"0", "1", "2", "3", "4", "5", "6", "7", "8", "9">>

DigitChars == Range(Digits)

DigitVal(c) == (CHOOSE i \in 1..10 : Digits[i] = c) - 1

\* the characters of a sequence of digit values
Chars(vals) == [i \in 1..Len(vals) |-> Digits[vals[i] + 1]]

Vals(s) == [i \in 1..Len(s) |-> DigitVal(s[i])]

IsDigits(s) == \A i \in 1..Len(s) : s[i] \in DigitChars

\* int() of a sequence of digit values
RECURSIVE NatOf(_)
NatOf(vals) ==
    IF vals = <<>> THEN 0
    ELSE 10 * NatOf(SubSeq(vals, 1, Len(vals) - 1)) + vals[Len(vals)]

\* the digit values of a natural number, without leading zeros ("0" for 0)
RECURSIVE DigitsOf(_)
DigitsOf(n) == IF n < 10 THEN <<n>> ELSE Append(DigitsOf(n \div 10), n % 10)

\* str(int(digits)): leading zeros dropped, "0" kept
RECURSIVE StripLeadingZeros(_)
StripLeadingZeros(vals) ==
    IF Len(vals) <= 1 THEN (IF vals = <<>> THEN <<0>> ELSE vals)
    ELSE IF Head(vals) = 0 THEN StripLeadingZeros(Tail(vals))
    ELSE vals

AllZeros(vals) == \A i \in 1..Len(vals) : vals[i] = 0

\* coefficient + 1 on digit values
RECURSIVE Incr(_)
Incr(vals) ==
    IF vals = <<>> THEN <<1>>
    ELSE IF vals[Len(vals)] < 9
         THEN [vals EXCEPT ![Len(vals)] = @ + 1]
         ELSE Append(Incr(SubSeq(vals, 1, Len(vals) - 1)), 0)

\* first position of s holding a character of cs, 0 when there is none
IndexOf(s, cs) ==
    IF \E i \in 1..Len(s) : s[i] \in cs
    THEN CHOOSE i \in 1..Len(s) : s[i] \in cs /\ \A j \in 1..(i - 1) : s[j] \notin cs
    ELSE 0

\* str.split(sep): the list of the parts between the separators
RECURSIVE SplitFrom(_, _, _, _)
SplitFrom(s, sep, cur, parts) ==
    IF s = <<>> THEN Append(parts, cur)
    ELSE IF Head(s) = sep THEN SplitFrom(Tail(s), sep, <<>>, Append(parts, cur))
    ELSE SplitFrom(Tail(s), sep, Append(cur, Head(s)), parts)

Split(s, sep) == SplitFrom(s, sep, <<>>, <<>>)

\* The working precision of decimal arithmetic (the default context).
Prec == 28

\* A decimal.Decimal: sign (0 plus, 1 minus), coefficient digits, exponent.
Dec(sign, int, exp) == [sign |-> sign, int |-> int, exp |-> exp]

NoDec == Dec(0, <<0>>, 0)

IsZero(x) == AllZeros(x.int)

\* decimal.Decimal(text): [ok, val].  Sign, digits with at most one point,
\* an optional exponent; anything else is decimal.InvalidOperation.
DecimalOfText(s) ==
    LET signed == s # <<>> /\ Head(s) \in {"-", "+"}
        sign   == IF signed /\ Head(s) = "-" THEN 1 ELSE 0
        body   == IF signed THEN Tail(s) ELSE s
        epos   == IndexOf(body, {"E", "e"})
        mant   == IF epos = 0 THEN body ELSE SubSeq(body, 1, epos - 1)
        etxt   == IF epos = 0 THEN <<>> ELSE SubSeq(body, epos + 1, Len(body))
        esign  == etxt # <<>> /\ Head(etxt) \in {"-", "+"}
        edig   == IF esign THEN Tail(etxt) ELSE etxt
        eok    == epos = 0 \/ (edig # <<>> /\ IsDigits(edig))
        eval   == IF epos = 0 \/ ~eok THEN 0
                  ELSE (IF esign /\ Head(etxt) = "-" THEN -1 ELSE 1) * NatOf(Vals(edig))
        ppos   == IndexOf(mant, {"."})
        ipart  == IF ppos = 0 THEN mant ELSE SubSeq(mant, 1, ppos - 1)
        fpart  == IF ppos = 0 THEN <<>> ELSE SubSeq(mant, ppos + 1, Len(mant))
        mok    == IsDigits(ipart) /\ IsDigits(fpart) /\ ipart \o fpart # <<>>
    IN  IF mok /\ eok
        THEN [ok |-> TRUE,
              val |-> Dec(sign, StripLeadingZeros(Vals(ipart \o fpart)), eval - Len(fpart))]
        ELSE [ok |-> FALSE, val |-> NoDec]

\* divmod(coefficient, d) for a long coefficient and a machine-size divisor
RECURSIVE LongDivFrom(_, _, _, _)
LongDivFrom(vals, d, quo, rem) ==
    IF vals = <<>> THEN [quo |-> StripLeadingZeros(quo), rem |-> rem]
    ELSE LET cur == rem * 10 + Head(vals)
         IN  LongDivFrom(Tail(vals), d, Append(quo, cur \div d), cur % d)

LongDiv(vals, d) == LongDivFrom(vals, d, <<>>, 0)

\* the exact-quotient loop of division: drop trailing zeros up to the ideal exponent
RECURSIVE Normalize(_, _, _)
Normalize(int, exp, ideal) ==
    IF exp < ideal /\ int[Len(int)] = 0
    THEN Normalize((IF Len(int) = 1 THEN int ELSE SubSeq(int, 1, Len(int) - 1)), exp + 1, ideal)
    ELSE [int |-> int, exp |-> exp]

\* Decimal._fix: round a coefficient longer than Prec digits half-even
Fix(x) ==
    IF IsZero(x) \/ Len(x.int) <= Prec THEN x
    ELSE LET kept    == SubSeq(x.int, 1, Prec)
             dropped == SubSeq(x.int, Prec + 1, Len(x.int))
             half    == dropped[1] = 5 /\ AllZeros(Tail(dropped))
             up      == IF half THEN kept[Prec] % 2 = 1 ELSE dropped[1] >= 5
             coeff   == IF up THEN Incr(kept) ELSE kept
             exp     == x.exp + Len(dropped)
         IN  IF Len(coeff) > Prec
             THEN Dec(x.sign, SubSeq(coeff, 1, Prec), exp + 1)
             ELSE Dec(x.sign, coeff, exp)

\* the quotient of Decimal.__truediv__ from divmod's dm: an inexact one is
\* marked in its last digit, an exact one brought to the ideal exponent
Quotient(sign, dm, exp, ideal) ==
    IF dm.rem # 0
    THEN Dec(sign, (IF dm.quo[Len(dm.quo)] % 5 = 0 THEN Incr(dm.quo) ELSE dm.quo), exp)
    ELSE Dec(sign, Normalize(dm.quo, exp, ideal).int, Normalize(dm.quo, exp, ideal).exp)

\* x.exp - y.exp - shift of Decimal.__truediv__
ShiftedExp(x, y) == x.exp - y.exp - (Len(y.int) - Len(x.int) + Prec + 1)

\* Decimal.__truediv__ for a non-zero divisor: the quotient to Prec + 1
\* digits and more, rounded half-even to Prec
Divide(x, y) ==
    Fix(Quotient(IF x.sign = y.sign THEN 0 ELSE 1,
                 LongDiv(x.int \o Zeros(Len(y.int) - Len(x.int) + Prec + 1), NatOf(y.int)),
                 ShiftedExp(x, y), x.exp - y.exp))

\* "%+d" % e
SignedText(e) == (IF e < 0 THEN <<"-">> ELSE <<"+">>) \o Chars(DigitsOf(Abs(e)))

\* str(Decimal): plain notation, scientific for small or positive exponents
DecStr(x) ==
    LET n          == Len(x.int)
        leftdigits == x.exp + n
        dotplace   == IF x.exp <= 0 /\ leftdigits > -6 THEN leftdigits ELSE 1
        intpart    == IF dotplace <= 0 THEN <<"0">>
                      ELSE IF dotplace >= n THEN Chars(x.int \o Zeros(dotplace - n))
                      ELSE Chars(SubSeq(x.int, 1, dotplace))
        fracpart   == IF dotplace <= 0 THEN <<".">> \o Chars(Zeros(-dotplace) \o x.int)
                      ELSE IF dotplace >= n THEN <<>>
                      ELSE <<".">> \o Chars(SubSeq(x.int, dotplace + 1, n))
        exptext    == IF leftdigits = dotplace THEN <<>>
                      ELSE <<"E">> \o SignedText(leftdigits - dotplace)
    IN  (IF x.sign = 1 THEN <<"-">> ELSE <<>>) \o intpart \o fracpart \o exptext

\* decimal.ROUND_DOWN in the place of ROUND_UP: the dropped digits are cut
RoundDown(dropped) == FALSE

\* decimal.ROUND_UP: away from zero as soon as a dropped digit is not zero
RoundUp(dropped) == ~AllZeros(dropped)

\* Decimal._rescale to the exponent -2 of a coefficient with digits to drop
Rescale(src, keep) ==
    IF RoundUp(SubSeq(src, keep + 1, Len(src)))
    THEN StripLeadingZeros(Incr(IF keep = 0 THEN <<0>> ELSE SubSeq(src, 1, keep)))
    ELSE IF keep = 0 THEN <<0>> ELSE SubSeq(src, 1, keep)

\* the rescaled coefficient as a Decimal, when it fits the precision
Rescaled(sign, coeff) ==
    IF Len(coeff) > Prec THEN [ok |-> FALSE, val |-> NoDec]
    ELSE [ok |-> TRUE, val |-> Dec(sign, coeff, -2)]

\* Decimal.quantize(Decimal('.01'), rounding=ROUND_UP): [ok, val]
Quantize(x) ==
    IF IsZero(x) THEN [ok |-> TRUE, val |-> Dec(x.sign, <<0>>, -2)]
    ELSE IF (x.exp + Len(x.int) - 1) + 2 + 1 > Prec THEN [ok |-> FALSE, val |-> NoDec]
    ELSE IF x.exp >= -2
         THEN [ok |-> TRUE, val |-> Dec(x.sign, x.int \o Zeros(x.exp + 2), -2)]
    ELSE IF Len(x.int) + x.exp + 2 < 0 THEN Rescaled(x.sign, Rescale(<<1>>, 0))
    ELSE Rescaled(x.sign, Rescale(x.int, Len(x.int) + x.exp + 2))

Raise(exc) == [kind |-> "raise", exc |-> exc, val |-> NoDec]

Return(val) == [kind |-> "return", exc |-> "", val |-> val]

\* no call made yet
NoRet == [kind |-> "none", exc |-> "", val |-> NoDec]

\* the quantized amount returned, or quantize's error
Amount(amt) == IF amt.ok THEN Return(amt.val) ELSE Raise("InvalidOperation")

\* Decimal(str(amount_dec)).quantize(...) on the text of the quotient
QuantizeText(again) ==
    IF again.ok THEN Amount(Quantize(again.val)) ELSE Raise("InvalidOperation")

\* Decimal(num) / Decimal(denum), then brought to two places
DivideParsed(num, denum) ==
    IF ~num.ok \/ ~denum.ok THEN Raise("InvalidOperation")
    ELSE IF IsZero(denum.val)
         THEN (IF IsZero(num.val) THEN Raise("InvalidOperation")
               ELSE Raise("DivisionByZero"))
    ELSE QuantizeText(DecimalOfText(DecStr(Divide(num.val, denum.val))))

\* num, denum = parts
Unpack(parts) ==
    IF Len(parts) # 2 THEN Raise("ValueError")
    ELSE DivideParsed(DecimalOfText(parts[1]), DecimalOfText(parts[2]))

\* _parse_number(numstring): what the call returns or raises
_parse_number(numstring) == Unpack(Split(numstring, "/"))

\* str(n) of an integer
IntText(n) == (IF n < 0 THEN <<"-">> ELSE <<>>) \o Chars(DigitsOf(Abs(n)))


\* ------------------------------------------------------------------------
\* Values of the object model
\* ------------------------------------------------------------------------

\* Python's None, for a guid, a text or a pair; an object reference that is
\* None is the object number 0.  The text of an empty element is None, so a
\* name is never the empty string.
None == <<>>

\* truth value of a text or None, as "if pfn:" takes it
Truthy(x) == x # <<>>

\* "{}".format(x) of a text or None
Format(x) == IF x = None THEN <<"N", "o", "n", "e">> ELSE x

\* an insertion-ordered dict: its keys in insertion order and its mapping
EmptyDict == [keys |-> <<>>, val |-> <<>>]

Has(d, k) == k \in Range(d.keys)

Get(d, k) == d.val[CHOOSE i \in 1..Len(d.keys) : d.keys[i] = k]

\* d[k] = v: a new key goes last, a key already there keeps its place
Put(d, k, v) ==
    IF Has(d, k)
    THEN [d EXCEPT !.val[CHOOSE i \in 1..Len(d.keys) : d.keys[i] = k] = v]
    ELSE [keys |-> Append(d.keys, k), val |-> Append(d.val, v)]

\* list(d.values())
Values(d) == d.val

\* ------------------------------------------------------------------------
\* Slots.  A frame is the sequence of its slot elements in document order,
\* None when the element is absent; a slot element is [key, value] with
\* value = [attrib, text, frame]: the attributes as (name, value) pairs, the
\* text of the value or of its gdate or ts:date child, and the slot children
\* of the value.  A parsed value is [py, v]: the Python type of the value and the
\* value; a parse is [exc, val] with exc "" when it returns.
\* ------------------------------------------------------------------------

\* value.get('type', 'string')
SlotType(value) ==
    IF \E a \in value.attrib : a[1] = "type"
    THEN (CHOOSE a \in value.attrib : a[1] = "type")[2]
    ELSE "string"

\* int(text)
IntOf(text) ==
    LET body == IF text # <<>> /\ Head(text) \in {"-", "+"} THEN Tail(text) ELSE text
    IN  IF text = None THEN [exc |-> "TypeError", val |-> None]
        ELSE IF body = <<>> \/ ~IsDigits(body) THEN [exc |-> "ValueError", val |-> None]
        ELSE [exc |-> "",
              val |-> [py |-> "int",
                       v  |-> (IF Head(text) = "-" THEN -1 ELSE 1) * NatOf(Vals(body))]]

\* _parse_number's result as a slot value
NumericOf(number) ==
    IF number.kind = "raise" THEN [exc |-> number.exc, val |-> None]
    ELSE [exc |-> "", val |-> [py |-> "Decimal", v |-> number.val]]

\* parse_date(text) of a date written year-month-day
parse_date(text) ==
    LET parts == Split(text, "-")
    IN  IF Len(parts) = 3 /\ \A i \in 1..3 : parts[i] # <<>> /\ IsDigits(parts[i])
        THEN [exc |-> "",
              val |-> [py |-> "datetime",
                       v  |-> [i \in 1..3 |-> NatOf(Vals(parts[i]))]]]
        ELSE [exc |-> "ValueError", val |-> None]

\* the nested mapping as the value of its slot, with no wrapper
FrameOf(inner) ==
    IF inner.exc # "" THEN [exc |-> inner.exc, val |-> None]
    ELSE [exc |-> "", val |-> [py |-> "dict", v |-> inner.val]]

\* slots[key] = ... with a slot of unknown type passed over
SlotStoredOrDropped(slots, key, one) ==
    [exc |-> IF one.exc = "RuntimeError" THEN "" ELSE one.exc,
     val |-> IF one.exc = "" THEN Put(slots, key, one.val) ELSE slots]

\* slots[key] = ..., when the value was parsed
SlotStored(slots, key, one) ==
    [exc |-> one.exc,
     val |-> IF one.exc = "" THEN Put(slots, key, one.val) ELSE slots]

RECURSIVE SlotLoop(_, _, _)

\* the branch of _slots_from_tree for the type of the value
SlotValue(value) ==
    LET type_ == SlotType(value)
    IN  CASE type_ \in {"integer", "double"} -> IntOf(value.text)
          [] type_ = "numeric" -> NumericOf(_parse_number(value.text))
          [] type_ \in {"string", "guid"} ->
                 [exc |-> "", val |-> [py |-> "str", v |-> value.text]]
          [] type_ \in {"gdate", "timespec"} -> parse_date(value.text)
          [] type_ = "frame" ->
                 FrameOf(SlotLoop(value.frame, 1, [exc |-> "", val |-> EmptyDict]))
          [] OTHER -> [exc |-> "RuntimeError", val |-> None]

\* the loop of _slots_from_tree over tree.findall("slot"), from the k-th
SlotLoop(elts, k, st) ==
    IF k > Len(elts) \/ st.exc # "" THEN st
    ELSE SlotLoop(elts, k + 1, SlotStored(st.val, elts[k].key, SlotValue(elts[k].value)))

\* _slots_from_tree(tree): [exc, val]; no tree gives the empty mapping
_slots_from_tree(tree) ==
    IF tree = None THEN [exc |-> "", val |-> EmptyDict]
    ELSE SlotLoop(tree, 1, [exc |-> "", val |-> EmptyDict])

VARIABLES
    numstring,      \* the text last handed to _parse_number
    frac,           \* <<n, d>> when that text was written from two integers
    ret,            \* what that call returned or raised
    doc,            \* the XML document being loaded
    pc,             \* the stage of the load, "done" or "failed"
    idx,            \* the next record of the stage
    err,            \* the exception that ended the load
    heap,           \* every Commodity object constructed, in order
    commoditydict,  \* (namespace, symbol) -> Commodity object
    commodities,    \* Book.commodities
    prices,         \* Book.prices
    root_account,   \* Book.root_account
    accountdict,    \* guid -> Account object
    parentdict,     \* guid -> declared parent guid
    acct,           \* every Account object constructed, in order
    accounts,       \* Book.accounts
    transactions,   \* Book.transactions
    splits,         \* every Split object constructed, in order
    customersdict, vendorsdict, taxtablesdict,
    entriesdict,    \* guid -> Entry
    invoices,       \* Book.invoices
    slots,          \* Book.slots
    walk,           \* the generator Book.walk() returned, once called
    call            \* the last accessor call and what it gave

numVars == <<numstring, frac, ret>>

cmdtyVars == <<heap, commoditydict, commodities, prices>>

acctVars == <<root_account, accountdict, parentdict, acct, accounts>>

trnVars == <<transactions, splits>>

bizVars == <<customersdict, vendorsdict, taxtablesdict, entriesdict, invoices>>

readVars == <<walk, call>>

loadVars == <<doc, pc, idx, err, cmdtyVars, acctVars, trnVars, bizVars, slots, readVars>>

vars == <<numVars, loadVars>>

\* ------------------------------------------------------------------------
\* Documents.  A document is the parsed XML tree seen as findall() sees it:
\* per element family, the records in document order.  A guid is the
\* primary key of its record, so the records of one family have distinct
\* guids.
\* ------------------------------------------------------------------------

Guid(kind, i) == <<kind, i>>

\* commodities as (namespace, symbol)
EUR == <<"ISO4217", "EUR">>

USD == <<"ISO4217", "USD">>

FUND == <<"FUND", "EUR">>

Pairs == {EUR, USD, FUND}

OneUnit == <<"1", "0", "0", "/", "1", "0", "0">>

MinusOneUnit == <<"-">> \o OneUnit

TaxRate == <<"2", "1", "0", "0", "0", "0", "0", "/", "1", "0", "0", "0", "0", "0">>

RootName == <<"R">>

Names == {None, <<"a">>, <<"b">>}

AccountRec(i, name, actype, parent) ==
    [guid |-> Guid("act", i), name |-> name, actype |-> actype,
     parent |-> parent, commodity |-> IF actype = "ROOT" THEN None ELSE EUR,
     slots |-> None]

SplitRec(t, i, account, value) ==
    [guid |-> Guid("split", 10 * t + i), account |-> account,
     value |-> value, quantity |-> value, slots |-> None]

TransactionRec(t, currency, date, splitrecs) ==
    [guid |-> Guid("trn", t), currency |-> currency, date |-> date, splits |-> splitrecs,
     slots |-> None]

PriceRec(currency, commodity) ==
    [currency |-> currency, commodity |-> commodity, value |-> OneUnit]

PartyRec(kind, i) == [guid |-> Guid(kind, i), name |-> <<"n">>]

TaxtableRec(i, amounts) == [guid |-> Guid("taxtable", i), amounts |-> amounts]

\* taxable is the text of entry:i-taxable, None when the element is absent;
\* taxtable likewise for entry:i-taxtable, invoice for entry:invoice
EntryRec(i, invoice, taxable, taxtable) ==
    [guid |-> Guid("entry", i), invoice |-> invoice, taxable |-> taxable,
     taxtable |-> taxtable, qty |-> OneUnit]

InvoiceRec(i, owner_type, owner_id) ==
    [guid |-> Guid("invoice", i), owner_type |-> owner_type, owner_id |-> owner_id]

\* The end-to-end fixture: two commodities, a root with two children, one
\* transaction of two balanced splits, one customer, one vendor, one tax
\* table, one invoice with two entries, and one price.
Fixture ==
    [wellformed   |-> TRUE,
     root         |-> "gnc-v2",
     commodities  |-> <<EUR, USD>>,
     prices       |-> <<PriceRec(EUR, USD)>>,
     accounts     |-> <<AccountRec(1, RootName, "ROOT", None),
                        AccountRec(2, <<"a">>, "ASSET", Guid("act", 1)),
                        AccountRec(3, <<"b">>, "BANK", Guid("act", 2))>>,
     transactions |-> <<TransactionRec(1, EUR, 1,
                          <<SplitRec(1, 1, Guid("act", 2), OneUnit),
                            SplitRec(1, 2, Guid("act", 3), MinusOneUnit)>>)>>,
     customers    |-> <<PartyRec("cust", 1)>>,
     vendors      |-> <<PartyRec("vendor", 1)>>,
     taxtables    |-> <<TaxtableRec(1, <<TaxRate>>)>>,
     entries      |-> <<EntryRec(1, Guid("invoice", 1), <<"1">>, Guid("taxtable", 1)),
                        EntryRec(2, Guid("invoice", 1), <<"1">>, Guid("taxtable", 1))>>,
     invoices     |-> <<InvoiceRec(1, "gncCustomer", Guid("cust", 1))>>,
     slots        |-> None]

\* all sequences over S of length 0..n
SeqsUpTo(S, n) == UNION {[1..k -> S] : k \in 0..n}

\* ------------------------------------------------------------------------
\* The loader: parse() and _book_from_tree(), one action per record
\* ------------------------------------------------------------------------

\* _book_from_tree with the loop over GncInvoice placed before the loop over
\* GncEntry
StageOrderInvoicesFirst ==
    <<"commodity", "price", "account", "link", "transaction", "customer",
      "vendor", "taxtable", "invoice", "entry", "slots">>

\* the stages of _book_from_tree in the order of its loops
StageOrder ==
    <<"commodity", "price", "account", "link", "transaction", "customer",
      "vendor", "taxtable", "entry", "invoice", "slots">>

StageNo(s) == CHOOSE k \in 1..Len(StageOrder) : StageOrder[k] = s

\* how many times the loop of a stage runs
Work(d, s) ==
    CASE s = "commodity"   -> Len(d.commodities)
      [] s = "price"       -> Len(d.prices)
      [] s = "account"     -> Len(d.accounts)
      [] s = "link"        -> Cardinality({d.accounts[i].guid : i \in 1..Len(d.accounts)})
      [] s = "transaction" -> Len(d.transactions)
      [] s = "customer"    -> Len(d.customers)
      [] s = "vendor"      -> Len(d.vendors)
      [] s = "taxtable"    -> Len(d.taxtables)
      [] s = "entry"       -> Len(d.entries)
      [] s = "invoice"     -> Len(d.invoices)
      [] s = "slots"       -> 1

\* the first stage from the k-th on whose loop has a record to run on
RECURSIVE StageFrom(_, _)
StageFrom(d, k) ==
    IF Work(d, StageOrder[k]) > 0 THEN StageOrder[k] ELSE StageFrom(d, k + 1)

\* the loop of the stage goes on to its next record, or the next stage starts
Advance ==
    /\ err' = err
    /\ IF idx < Work(doc, pc)
       THEN pc' = pc /\ idx' = idx + 1
       ELSE pc' = StageFrom(doc, StageNo(pc) + 1) /\ idx' = 1

\* an exception leaves _book_from_tree and parse(): no Book is returned
Fail(exc) == pc' = "failed" /\ err' = exc /\ idx' = idx

\* parse() with no test of the root tag: any XML that parses is accepted
AcceptedAsXml(d) == d.wellformed

\* parse() goes on to _book_from_tree: the XML parses and its root tag is gnc-v2
Accepted(d) == d.wellformed /\ d.root = "gnc-v2"

\* parse(): the XML is read and the root tag checked
Parse ==
    /\ pc = "parse"
    /\ IF ~Accepted(doc)
       THEN Fail("ValueError")
       ELSE pc' = StageFrom(doc, 1) /\ idx' = 1 /\ err' = err
    /\ UNCHANGED <<doc, slots, numVars, cmdtyVars, acctVars, trnVars, bizVars, readVars>>

\* Commodity(name=name, space=space)
Commodity(pair) == [name |-> pair[2], space |-> pair[1]]

\* dict.setdefault(k, v) with every call storing v: [dict, val]
SetDefaultStore(d, k, v) == [dict |-> Put(d, k, v), val |-> v]

\* dict.setdefault(k, v): [dict, val]
SetDefault(d, k, v) ==
    IF Has(d, k) THEN [dict |-> d, val |-> Get(d, k)]
    ELSE [dict |-> Put(d, k, v), val |-> v]

\* _commodity_find(space, name) on a heap h and registry d: the Commodity
\* handed as default is constructed at every call
_commodity_find(h, d, pair) ==
    LET sd == SetDefault(d, pair, Len(h) + 1)
    IN  [heap |-> Append(h, Commodity(pair)), dict |-> sd.dict, obj |-> sd.val]

\* the body of the loop over gnc:commodity
LoadCommodity ==
    /\ pc = "commodity"
    /\ LET comm  == Commodity(doc.commodities[idx])
           found == _commodity_find(Append(heap, comm), commoditydict,
                                    <<comm.space, comm.name>>)
       IN  /\ heap' = found.heap
           /\ commoditydict' = found.dict
           /\ commodities' = Append(commodities, found.obj)
    /\ Advance
    /\ UNCHANGED <<doc, slots, numVars, prices, acctVars, trnVars, bizVars, readVars>>

\* _price_from_tree and the body of the loop over the price database
LoadPrice ==
    /\ pc = "price"
    /\ \E value \in {_parse_number(doc.prices[idx].value)} :
          LET rec       == doc.prices[idx]
              currency  == _commodity_find(heap, commoditydict, rec.currency)
              commodity == _commodity_find(currency.heap, currency.dict, rec.commodity)
          IN  IF value.kind = "raise"
              THEN Fail(value.exc) /\ UNCHANGED cmdtyVars
              ELSE /\ heap' = commodity.heap
                   /\ commoditydict' = commodity.dict
                   /\ prices' = Append(prices, [commodity |-> commodity.obj,
                                                currency |-> currency.obj,
                                                value |-> value.val])
                   /\ commodities' = commodities
                   /\ Advance
    /\ UNCHANGED <<doc, slots, numVars, acctVars, trnVars, bizVars, readVars>>

\* Account(...): parent None, no children, no splits
Account(name, guid, actype, commodity, sl) ==
    [name |-> name, guid |-> guid, actype |-> actype, commodity |-> commodity,
     slots |-> sl, parent |-> 0, children |-> <<>>, splits |-> <<>>]

\* _account_from_tree with commoditydict.get(...) in the place of the lookup:
\* an account of a pair not in the registry is built with commodity None
AccountMadeUnresolved(rec, cdict, sl) ==
    IF sl.exc # ""
    THEN [exc |-> sl.exc, parent_guid |-> None, acc |-> <<>>]
    ELSE [exc |-> "",
          parent_guid |-> IF rec.actype = "ROOT" THEN None ELSE rec.parent,
          acc |-> Account(rec.name, rec.guid, rec.actype,
                          IF rec.actype # "ROOT" /\ Has(cdict, rec.commodity)
                          THEN Get(cdict, rec.commodity) ELSE 0,
                          sl.val)]

\* the Account of a record, given its parsed slots: [exc, parent_guid, acc]
AccountMade(rec, cdict, sl) ==
    IF sl.exc # ""
    THEN [exc |-> sl.exc, parent_guid |-> None, acc |-> <<>>]
    ELSE IF rec.actype = "ROOT"
    THEN [exc |-> "", parent_guid |-> None,
          acc |-> Account(rec.name, rec.guid, rec.actype, 0, sl.val)]
    ELSE IF ~Has(cdict, rec.commodity)
    THEN [exc |-> "KeyError", parent_guid |-> None, acc |-> <<>>]
    ELSE [exc |-> "", parent_guid |-> rec.parent,
          acc |-> Account(rec.name, rec.guid, rec.actype, Get(cdict, rec.commodity),
                          sl.val)]

\* _account_from_tree(tree, commoditydict): [exc, parent_guid, acc]
_account_from_tree(rec, cdict) == AccountMade(rec, cdict, _slots_from_tree(rec.slots))

\* pass 1: the body of the loop over gnc:account
LoadAccount ==
    /\ pc = "account"
    /\ \E made \in {_account_from_tree(doc.accounts[idx], commoditydict)} :
           IF made.exc # ""
           THEN Fail(made.exc) /\ UNCHANGED acctVars
           ELSE /\ acct' = Append(acct, made.acc)
                /\ root_account' = IF made.acc.actype = "ROOT" THEN Len(acct) + 1
                                    ELSE root_account
                /\ accountdict' = Put(accountdict, made.acc.guid, Len(acct) + 1)
                /\ parentdict' = Put(parentdict, made.acc.guid, made.parent_guid)
                /\ accounts' = accounts
                /\ Advance
    /\ UNCHANGED <<doc, slots, numVars, cmdtyVars, trnVars, bizVars, readVars>>

\* pass 2 with the parent set and parent.children left as it was
LinkedWithoutChild(objs, obj, parent) == [objs EXCEPT ![obj].parent = parent]

\* acc.parent = parent; parent.children.append(acc)
Linked(objs, obj, parent) ==
    [[objs EXCEPT ![obj].parent = parent] EXCEPT ![parent].children = Append(@, obj)]

\* pass 2: the body of the loop over list(accountdict.values())
LinkAccount ==
    /\ pc = "link"
    /\ LET obj == Values(accountdict)[idx]
           pg  == Get(parentdict, acct[obj].guid)
       IN  IF acct[obj].parent = 0 /\ acct[obj].actype # "ROOT"
           THEN IF ~Has(accountdict, pg)
                THEN Fail("KeyError") /\ UNCHANGED acctVars
                ELSE /\ acct' = Linked(acct, obj, Get(accountdict, pg))
                     /\ accounts' = Append(accounts, obj)
                     /\ UNCHANGED <<root_account, accountdict, parentdict>>
                     /\ Advance
           ELSE UNCHANGED acctVars /\ Advance
    /\ UNCHANGED <<doc, slots, numVars, cmdtyVars, trnVars, bizVars, readVars>>

\* _split_from_tree with accountdict.get(guid) in the place of the lookup:
\* a split of no account is made with account None and joins no split list
SplitMadeUnresolved(rec, adict, transaction, st, value, quantity, sl) ==
    IF value.kind = "raise"
    THEN [exc |-> value.exc, acct |-> st.acct, splits |-> st.splits, split |-> 0]
    ELSE IF quantity.kind = "raise"
    THEN [exc |-> quantity.exc, acct |-> st.acct, splits |-> st.splits, split |-> 0]
    ELSE IF sl.exc # ""
    THEN [exc |-> sl.exc, acct |-> st.acct, splits |-> st.splits, split |-> 0]
    ELSE [exc    |-> "",
          acct   |-> IF Has(adict, rec.account)
                     THEN [st.acct EXCEPT ![Get(adict, rec.account)].splits =
                                              Append(@, Len(st.splits) + 1)]
                     ELSE st.acct,
          splits |-> Append(st.splits,
                            [guid |-> rec.guid, value |-> value.val,
                             quantity |-> quantity.val,
                             account |-> IF Has(adict, rec.account)
                                         THEN Get(adict, rec.account) ELSE 0,
                             transaction |-> transaction, slots |-> sl.val]),
          split  |-> Len(st.splits) + 1]

\* Split(...) appended to its account's split list, on the objects st =
\* [acct, splits]: [exc, acct, splits, split]; exc is "" when it returns
SplitMade(rec, adict, transaction, st, value, quantity, sl) ==
    IF value.kind = "raise"
    THEN [exc |-> value.exc, acct |-> st.acct, splits |-> st.splits, split |-> 0]
    ELSE IF quantity.kind = "raise"
    THEN [exc |-> quantity.exc, acct |-> st.acct, splits |-> st.splits, split |-> 0]
    ELSE IF ~Has(adict, rec.account)
    THEN [exc |-> "KeyError", acct |-> st.acct, splits |-> st.splits, split |-> 0]
    ELSE IF sl.exc # ""
    THEN [exc |-> sl.exc, acct |-> st.acct, splits |-> st.splits, split |-> 0]
    ELSE [exc    |-> "",
          acct   |-> [st.acct EXCEPT ![Get(adict, rec.account)].splits =
                                         Append(@, Len(st.splits) + 1)],
          splits |-> Append(st.splits,
                            [guid |-> rec.guid, value |-> value.val,
                             quantity |-> quantity.val,
                             account |-> Get(adict, rec.account),
                             transaction |-> transaction, slots |-> sl.val]),
          split  |-> Len(st.splits) + 1]

\* _split_from_tree(tree, accountdict, transaction)
_split_from_tree(rec, adict, transaction, st) ==
    SplitMade(rec, adict, transaction, st,
              _parse_number(rec.value), _parse_number(rec.quantity),
              _slots_from_tree(rec.slots))

\* the loop over trn:split without transaction.splits.append(split)
SplitNotAppended(st, one) ==
    [exc |-> one.exc, acct |-> one.acct, splits |-> one.splits, own |-> st.own]

\* transaction.splits.append(split), when _split_from_tree returned
SplitAppended(st, one) ==
    [exc |-> one.exc, acct |-> one.acct, splits |-> one.splits,
     own |-> IF one.exc = "" THEN Append(st.own, one.split) ELSE st.own]

\* the loop of _transaction_from_tree over trn:split, from the k-th record:
\* [exc, acct, splits, own] with own the transaction's split list
RECURSIVE SplitLoop(_, _, _, _, _)
SplitLoop(recs, k, adict, transaction, st) ==
    IF k > Len(recs) \/ st.exc # "" THEN st
    ELSE SplitLoop(recs, k + 1, adict, transaction,
                   SplitAppended(st, _split_from_tree(recs[k], adict, transaction, st)))

\* the Transaction with the splits its loop made
TransactionMade(rec, cdict, sl, loop) ==
    [exc |-> loop.exc, acct |-> loop.acct, splits |-> loop.splits,
     trn |-> [guid |-> rec.guid, currency |-> Get(cdict, rec.currency),
              date |-> rec.date, slots |-> sl.val, splits |-> loop.own]]

\* the Transaction of a record, given its parsed slots: the Transaction is
\* constructed and the loop over trn:split run when the slots were parsed
TransactionWith(rec, adict, cdict, t, objs, sobjs, sl) ==
    IF sl.exc # ""
    THEN [exc |-> sl.exc, acct |-> objs, splits |-> sobjs, trn |-> <<>>]
    ELSE TransactionMade(rec, cdict, sl,
             SplitLoop(rec.splits, 1, adict, t,
                       [exc |-> "", acct |-> objs, splits |-> sobjs, own |-> <<>>]))

\* _transaction_from_tree(tree, accountdict, commoditydict) as the t-th
\* Transaction: [exc, acct, splits, trn]
_transaction_from_tree(rec, adict, cdict, t, objs, sobjs) ==
    IF ~Has(cdict, rec.currency)
    THEN [exc |-> "KeyError", acct |-> objs, splits |-> sobjs, trn |-> <<>>]
    ELSE TransactionWith(rec, adict, cdict, t, objs, sobjs, _slots_from_tree(rec.slots))

\* the body of the loop over gnc:transaction
LoadTransaction ==
    /\ pc = "transaction"
    /\ \E made \in {_transaction_from_tree(doc.transactions[idx], accountdict,
                                           commoditydict, Len(transactions) + 1,
                                           acct, splits)} :
           /\ acct' = made.acct
           /\ splits' = made.splits
           /\ IF made.exc # ""
              THEN Fail(made.exc) /\ transactions' = transactions
              ELSE transactions' = Append(transactions, made.trn) /\ Advance
    /\ UNCHANGED <<doc, slots, numVars, cmdtyVars, root_account, accountdict, parentdict,
                   accounts, bizVars, readVars>>

\* _customer_from_tree and the body of the loop over gnc:GncCustomer
LoadCustomer ==
    /\ pc = "customer"
    /\ LET rec == doc.customers[idx]
       IN  customersdict' = Put(customersdict, rec.guid, [guid |-> rec.guid, name |-> rec.name])
    /\ Advance
    /\ UNCHANGED <<doc, slots, numVars, cmdtyVars, acctVars, trnVars, vendorsdict,
                   taxtablesdict, entriesdict, invoices, readVars>>

\* _vendor_from_tree and the body of the loop over gnc:GncVendor
LoadVendor ==
    /\ pc = "vendor"
    /\ LET rec == doc.vendors[idx]
       IN  vendorsdict' = Put(vendorsdict, rec.guid, [guid |-> rec.guid, name |-> rec.name])
    /\ Advance
    /\ UNCHANGED <<doc, slots, numVars, cmdtyVars, acctVars, trnVars, customersdict,
                   taxtablesdict, entriesdict, invoices, readVars>>

\* the first exception among the parsed amounts, "" when there is none
FirstRaised(amounts) ==
    IF \A i \in 1..Len(amounts) : amounts[i].kind # "raise" THEN ""
    ELSE amounts[CHOOSE i \in 1..Len(amounts) :
                    /\ amounts[i].kind = "raise"
                    /\ \A j \in 1..(i - 1) : amounts[j].kind # "raise"].exc

\* Taxtable(...) with a Taxtableentry per parsed amount
TaxtableMade(rec, amounts) ==
    [exc |-> FirstRaised(amounts),
     taxtable |-> [guid |-> rec.guid,
                   taxtable_entries |->
                       [i \in 1..Len(amounts) |->
                           [amount |-> amounts[i].val, ttetype |-> "PERCENT"]]]]

\* _taxtable_from_tree: [exc, taxtable], each entry's amount parsed
_taxtable_from_tree(rec) ==
    TaxtableMade(rec, [i \in 1..Len(rec.amounts) |-> _parse_number(rec.amounts[i])])

\* the body of the loop over gnc:GncTaxTable
LoadTaxtable ==
    /\ pc = "taxtable"
    /\ \E made \in {_taxtable_from_tree(doc.taxtables[idx])} :
          IF made.exc # ""
          THEN Fail(made.exc) /\ taxtablesdict' = taxtablesdict
          ELSE taxtablesdict' = Put(taxtablesdict, made.taxtable.guid, made.taxtable)
               /\ Advance
    /\ UNCHANGED <<doc, slots, numVars, cmdtyVars, acctVars, trnVars, customersdict,
                   vendorsdict, entriesdict, invoices, readVars>>

\* Entry(...) of the k-th record, given its parsed quantity: [exc, entry];
\* id is the identity of the object, the position of its record
EntryMade(rec, tdict, k, qty) ==
    IF qty.kind = "raise" THEN [exc |-> qty.exc, entry |-> <<>>]
    ELSE IF rec.taxable # None /\ rec.taxtable = None
    THEN [exc |-> "AttributeError", entry |-> <<>>]
    ELSE IF rec.taxable # None /\ ~Has(tdict, rec.taxtable)
    THEN [exc |-> "KeyError", entry |-> <<>>]
    ELSE [exc |-> "",
          entry |-> [id |-> k, guid |-> rec.guid, invoice_guid |-> rec.invoice,
                     qty |-> qty.val, taxable |-> rec.taxable,
                     taxtable |-> IF rec.taxable = None THEN None
                                  ELSE Get(tdict, rec.taxtable)]]

\* _entry_from_tree(tree, taxtabledict) for the k-th Entry: [exc, entry]
_entry_from_tree(rec, tdict, k) ==
    EntryMade(rec, tdict, k,
              IF rec.qty = None THEN Return(NoDec) ELSE _parse_number(rec.qty))

\* the body of the loop over gnc:GncEntry
LoadEntry ==
    /\ pc = "entry"
    /\ \E made \in {_entry_from_tree(doc.entries[idx], taxtablesdict, idx)} :
          IF made.exc # ""
          THEN Fail(made.exc) /\ entriesdict' = entriesdict
          ELSE entriesdict' = Put(entriesdict, made.entry.guid, made.entry) /\ Advance
    /\ UNCHANGED <<doc, slots, numVars, cmdtyVars, acctVars, trnVars, customersdict,
                   vendorsdict, taxtablesdict, invoices, readVars>>

\* the selection of an invoice's entries that also takes the entries of no
\* invoice
EntriesOrUnowned(edict, guid) ==
    SelectSeq([i \in 1..Len(edict.keys) |-> Get(edict, edict.keys[i])],
              LAMBDA e : e.invoice_guid = guid \/ e.invoice_guid = None)

\* the loop of _invoice_from_tree over entriesdict.keys()
EntriesOf(edict, guid) ==
    SelectSeq([i \in 1..Len(edict.keys) |-> Get(edict, edict.keys[i])],
              LAMBDA e : e.invoice_guid = guid)

\* _invoice_from_tree(tree, customersdict, entriesdict, vendorsdict): [exc, invoice]
_invoice_from_tree(rec, cdict, edict, vdict) ==
    LET customer == IF rec.owner_type = "gncCustomer" THEN Get(cdict, rec.owner_id) ELSE None
        vendor   == IF rec.owner_type = "gncVendor" THEN Get(vdict, rec.owner_id) ELSE None
    IN  IF rec.owner_type = "gncCustomer" /\ ~Has(cdict, rec.owner_id)
        THEN [exc |-> "KeyError", invoice |-> <<>>]
        ELSE IF rec.owner_type = "gncVendor" /\ ~Has(vdict, rec.owner_id)
        THEN [exc |-> "KeyError", invoice |-> <<>>]
        ELSE [exc |-> "",
              invoice |-> [guid |-> rec.guid, customer |-> customer, vendor |-> vendor,
                           entries |-> EntriesOf(edict, rec.guid)]]

\* the body of the loop over gnc:GncInvoice
LoadInvoice ==
    /\ pc = "invoice"
    /\ LET made == _invoice_from_tree(doc.invoices[idx], customersdict, entriesdict,
                                      vendorsdict)
       IN  IF made.exc # ""
           THEN Fail(made.exc) /\ invoices' = invoices
           ELSE invoices' = Append(invoices, made.invoice) /\ Advance
    /\ UNCHANGED <<doc, slots, numVars, cmdtyVars, acctVars, trnVars, customersdict,
                   vendorsdict, taxtablesdict, entriesdict, readVars>>

\* the book's slots are read and the Book is built and returned; its fields
\* are the loader's collections
ReturnBook ==
    /\ pc = "slots"
    /\ \E sl \in {_slots_from_tree(doc.slots)} :
           IF sl.exc # ""
           THEN Fail(sl.exc) /\ slots' = slots
           ELSE slots' = sl.val /\ pc' = "done" /\ idx' = idx /\ err' = err
    /\ UNCHANGED <<doc, numVars, cmdtyVars, acctVars, trnVars, bizVars, readVars>>

\* ------------------------------------------------------------------------
\* The Book's accessors, called on the Book a load returned
\* ------------------------------------------------------------------------

NoWalk == [st |-> "none", queue |-> <<>>, out |-> <<>>]

\* a call: its receiver arg (an object) or its argument key (a name, a
\* guid), whether it raised and what, and the text or the item it returned,
\* an item being None or the kind and the number of an object
NoCall == [op |-> "none", arg |-> 0, key |-> None, raised |-> FALSE, exc |-> "",
           text |-> <<>>, item |-> None]

\* Account.fullname() on the objects objs.  A parent chain longer than the
\* number of objects never ends: the recursion exhausts the stack.
RECURSIVE fullnameFrom(_, _, _)
fullnameFrom(objs, a, fuel) ==
    IF fuel = 0 THEN [raised |-> TRUE, text |-> <<>>]
    ELSE IF objs[a].parent # 0
    THEN LET pfn == fullnameFrom(objs, objs[a].parent, fuel - 1)
         IN  IF pfn.raised THEN pfn
             ELSE IF Truthy(pfn.text)
             THEN [raised |-> FALSE,
                   text |-> Format(pfn.text) \o <<":">> \o Format(objs[a].name)]
             ELSE [raised |-> FALSE, text |-> objs[a].name]
    ELSE [raised |-> FALSE, text |-> <<>>]

fullname(a) == fullnameFrom(acct, a, Len(acct) + 1)

\* a call of Account.fullname() on any account object
CallFullname ==
    /\ pc = "done"
    /\ walk.st = "none"
    /\ \E a \in 1..Len(acct) :
          LET r == fullname(a)
          IN  call' = [NoCall EXCEPT !.op = "fullname", !.arg = a,
                                     !.raised = r.raised, !.text = r.text]
    /\ UNCHANGED <<doc, slots, pc, idx, err, numVars, cmdtyVars, acctVars, trnVars, bizVars, walk>>

\* Book.walk(): the generator of the root account, not yet advanced
CallWalk ==
    /\ pc = "done"
    /\ walk.st = "none"
    /\ walk' = IF root_account = 0
               THEN [st |-> "raised", queue |-> <<>>, out |-> <<>>]
               ELSE [st |-> "running", queue |-> <<root_account>>, out |-> <<>>]
    /\ UNCHANGED <<doc, slots, pc, idx, err, numVars, cmdtyVars, acctVars, trnVars, bizVars, call>>

\* one turn of the loop of Account.walk(), the queue taken from the back
WalkStepDepthFirst(w, objs) ==
    LET acc      == w.queue[Len(w.queue)]
        children == objs[acc].children
    IN  [st    |-> "running",
         queue |-> SubSeq(w.queue, 1, Len(w.queue) - 1) \o children,
         out   |-> Append(w.out, [acc |-> acc, children |-> children,
                                  splits |-> objs[acc].splits])]

\* one turn of the loop of Account.walk(): the head of the queue is yielded
\* with a copy of its children and its split list, and its children queued
WalkStep(w, objs) ==
    LET acc      == Head(w.queue)
        children == objs[acc].children
    IN  [st    |-> "running",
         queue |-> Tail(w.queue) \o children,
         out   |-> Append(w.out, [acc |-> acc, children |-> children,
                                  splits |-> objs[acc].splits])]

\* next() on the generator: the next triple, or the end of the iteration
NextWalk ==
    /\ walk.st = "running"
    /\ walk' = IF walk.queue = <<>> THEN [walk EXCEPT !.st = "finished"]
               ELSE WalkStep(walk, acct)
    /\ UNCHANGED <<doc, slots, pc, idx, err, numVars, cmdtyVars, acctVars, trnVars, bizVars, call>>

\* list(self.walk()) from a generator state on: the triples in the order
\* the loop of Account.walk() yields them
RECURSIVE WalkFrom(_, _)
WalkFrom(w, objs) ==
    IF w.queue = <<>> THEN w.out ELSE WalkFrom(WalkStep(w, objs), objs)

\* the first of the positions at which a loop's test holds, 0 when it holds
\* at none
First(hits) == IF hits = {} THEN 0 ELSE CHOOSE k \in hits : \A j \in hits : k <= j

\* Book.find_account(name) on the objects objs: [raised, item]; with no
\* root account self.root_account.walk() is a call on None
find_account(name, root, objs) ==
    IF root = 0 THEN [raised |-> TRUE, item |-> None]
    ELSE LET out == WalkFrom([st |-> "running", queue |-> <<root>>, out |-> <<>>], objs)
             k   == First({i \in 1..Len(out) : objs[out[i].acc].name = name})
         IN  [raised |-> FALSE,
              item |-> IF k = 0 THEN None ELSE <<"Account", out[k].acc>>]

\* Book.find_guid(guid): the first item of self.accounts + self.transactions
\* of that guid
find_guid(guid, accs, objs, trns) ==
    LET a == First({i \in 1..Len(accs) : objs[accs[i]].guid = guid})
        t == First({i \in 1..Len(trns) : trns[i].guid = guid})
    IN  IF a # 0 THEN <<"Account", accs[a]>>
        ELSE IF t # 0 THEN <<"Transaction", t>>
        ELSE None

\* the names a caller looks up: those of the document, and one of no account
SearchNames == Names \cup {RootName, <<"z">>}

\* a call of Book.find_account on any name
CallFindAccount ==
    /\ pc = "done"
    /\ walk.st = "none"
    /\ \E name \in SearchNames :
          \E r \in {find_account(name, root_account, acct)} :
              call' = [NoCall EXCEPT !.op = "find_account", !.key = name,
                                     !.raised = r.raised, !.item = r.item]
    /\ UNCHANGED <<doc, slots, pc, idx, err, numVars, cmdtyVars, acctVars, trnVars, bizVars, walk>>

\* the guids a caller looks up: those of the document's accounts and
\* transactions, and one of no record
SearchGuids(d) ==
    {d.accounts[i].guid : i \in 1..Len(d.accounts)}
        \cup {d.transactions[t].guid : t \in 1..Len(d.transactions)}
        \cup {Guid("act", 0)}

\* a call of Book.find_guid on any guid
CallFindGuid ==
    /\ pc = "done"
    /\ walk.st = "none"
    /\ \E guid \in SearchGuids(doc) :
          call' = [NoCall EXCEPT !.op = "find_guid", !.key = guid,
                                 !.item = find_guid(guid, accounts, acct, transactions)]
    /\ UNCHANGED <<doc, slots, pc, idx, err, numVars, cmdtyVars, acctVars, trnVars, bizVars, walk>>

\* a line of the ledger: what it is, the object it renders, and the text,
\* date and amount formatted into it
Line(kind, item, text, date, value) ==
    [kind |-> kind, item |-> item, text |-> text, date |-> date, value |-> value]

BlankLine == Line("blank", 0, <<>>, 0, NoDec)

\* list.insert after the last element that is not greater: Transaction.__lt__
\* compares the posted dates
InsertByDate(sorted, t, trns) ==
    LET k == Cardinality({i \in 1..Len(sorted) : ~(trns[t].date < trns[sorted[i]].date)})
    IN  SubSeq(sorted, 1, k) \o <<t>> \o SubSeq(sorted, k + 1, Len(sorted))

\* sorted(self.transactions): a new list, stable, of the positions in
\* self.transactions
RECURSIVE SortedFrom(_, _, _)
SortedFrom(trns, t, sorted) ==
    IF t > Len(trns) THEN sorted
    ELSE SortedFrom(trns, t + 1, InsertByDate(sorted, t, trns))

sorted(trns) == SortedFrom(trns, 1, <<>>)

\* the lines of the loop over self.commodities
RECURSIVE CommodityLines(_, _, _)
CommodityLines(cs, h, k) ==
    IF k > Len(cs) THEN <<>>
    ELSE <<Line("commodity", cs[k], h[cs[k]].name, 0, NoDec),
           Line("namespace", cs[k], h[cs[k]].space, 0, NoDec), BlankLine>>
             \o CommodityLines(cs, h, k + 1)

\* the lines of the loop over self.accounts
RECURSIVE AccountLines(_, _, _)
AccountLines(accs, objs, k) ==
    IF k > Len(accs) THEN <<>>
    ELSE <<Line("account", accs[k],
                Format(fullnameFrom(objs, accs[k], Len(objs) + 1).text), 0, NoDec),
           Line("check", objs[accs[k]].commodity, <<>>, 0, NoDec), BlankLine>>
             \o AccountLines(accs, objs, k + 1)

\* the lines of the loop over trn.splits
RECURSIVE SplitLines(_, _, _, _)
SplitLines(own, sobjs, objs, k) ==
    IF k > Len(own) THEN <<>>
    ELSE <<Line("split", own[k],
                fullnameFrom(objs, sobjs[own[k]].account, Len(objs) + 1).text, 0,
                sobjs[own[k]].value)>>
             \o SplitLines(own, sobjs, objs, k + 1)

\* the lines of the loop over sorted(self.transactions)
RECURSIVE TransactionLines(_, _, _, _, _)
TransactionLines(order, trns, sobjs, objs, k) ==
    IF k > Len(order) THEN <<>>
    ELSE <<Line("transaction", order[k], <<>>, trns[order[k]].date, NoDec)>>
             \o SplitLines(trns[order[k]].splits, sobjs, objs, 1)
             \o <<BlankLine>>
             \o TransactionLines(order, trns, sobjs, objs, k + 1)

\* Book.ledger(): [exc, lines].  fullname() of an account that is its own
\* ancestor exhausts the stack; "{:50}".format(None) is a TypeError, and
\* fullname() is None, not "", for an account that has a parent
ledger(cs, h, accs, objs, trns, sobjs) ==
    IF \E k \in 1..Len(accs) : fullnameFrom(objs, accs[k], Len(objs) + 1).raised
    THEN [exc |-> "RecursionError", lines |-> <<>>]
    ELSE IF \E s \in 1..Len(sobjs) :
                /\ objs[sobjs[s].account].parent # 0
                /\ fullnameFrom(objs, sobjs[s].account, Len(objs) + 1).text = None
    THEN [exc |-> "TypeError", lines |-> <<>>]
    ELSE [exc |-> "",
          lines |-> CommodityLines(cs, h, 1) \o AccountLines(accs, objs, 1)
                        \o TransactionLines(sorted(trns), trns, sobjs, objs, 1)]

\* a call of Book.ledger(); the Book is left as it was
CallLedger ==
    /\ pc = "done"
    /\ walk.st = "none"
    /\ \E r \in {ledger(commodities, heap, accounts, acct, transactions, splits)} :
          call' = [NoCall EXCEPT !.op = "ledger", !.raised = r.exc # "", !.exc = r.exc,
                                 !.text = r.lines]
    /\ UNCHANGED <<doc, slots, pc, idx, err, numVars, cmdtyVars, acctVars, trnVars, bizVars, walk>>

\* ------------------------------------------------------------------------
\* Calls of _parse_number on its own
\* ------------------------------------------------------------------------

\* fractions written by GnuCash: the integer grid and the documented examples
Fractions ==
    ((-MaxNum..MaxNum) \X (1..MaxDen))
        \cup {<<100, 100>>, <<333, 1000>>, <<0, 100000>>, <<-333, 1000>>,
              <<1, 10000000>>, <<21000000, 100000>>}

Alphabet == {"1", "5", "0", ".", "/", "a", "-"}

\* free text: everything over the alphabet, and texts of the kinds a slot or
\* an element may hold in the place of a fraction
Texts ==
    SeqsUpTo(Alphabet, MaxLen)
        \cup {<<"1", ".", "5", "/", "2">>, <<"1", "/", "2", "/", "3">>,
              <<"1", "0", "0">>, <<"3", "/", "1", "e", "2">>}

\* a caller hands its text to _parse_number and takes what comes back
CallParseNumber ==
    /\ ret.kind = "none"
    /\ ret' = _parse_number(numstring)
    /\ UNCHANGED <<numstring, frac, loadVars>>

\* ------------------------------------------------------------------------
\* The documents of each specification
\* ------------------------------------------------------------------------

Bare == [Fixture EXCEPT !.prices = <<>>, !.transactions = <<>>, !.customers = <<>>,
                        !.vendors = <<>>, !.taxtables = <<>>, !.entries = <<>>,
                        !.invoices = <<>>]

\* any account records: each a root or an account naming as parent any
\* account of the document, itself included, or a guid of no record
AccountChoices(n) ==
    [1..n -> {[name |-> RootName, actype |-> "ROOT", parent |-> None]}
             \cup [name : {<<"a">>}, actype : {"BANK"},
                   parent : {Guid("act", j) : j \in 0..n}]]

AccountDocsOf(n) ==
    {[Bare EXCEPT
        !.accounts = [i \in 1..n |-> AccountRec(i, c[i].name, c[i].actype, c[i].parent)],
        !.transactions = <<TransactionRec(1, EUR, 1,
                              <<SplitRec(1, 1, Guid("act", 1), OneUnit),
                                SplitRec(1, 2, Guid("act", n), MinusOneUnit)>>)>>]
     : c \in AccountChoices(n)}

AccountDocs == UNION {AccountDocsOf(n) : n \in 1..MaxAccounts}

\* a root, a child of the root and two accounts below it, one under the
\* other or side by side, of every name, the empty one included
NameDocs ==
    {[Bare EXCEPT
        !.accounts = <<AccountRec(1, RootName, "ROOT", None),
                       AccountRec(2, n[1], "BANK", Guid("act", 1)),
                       AccountRec(3, n[2], "BANK", Guid("act", 2)),
                       AccountRec(4, n[3], "BANK", Guid("act", under))>>]
     : n \in [1..3 -> Names], under \in {2, 3}}

\* a root and accounts that each name any account of the document as parent,
\* itself included
TreeDocs ==
    {[Bare EXCEPT
        !.accounts = <<AccountRec(1, RootName, "ROOT", None)>> \o
                     [i \in 1..MaxTree |->
                         AccountRec(i + 1, <<"a">>, "BANK", Guid("act", p[i]))],
        !.transactions = <<TransactionRec(1, EUR, 1,
                              <<SplitRec(1, 1, Guid("act", 2), OneUnit),
                                SplitRec(1, 2, Guid("act", MaxTree + 1), MinusOneUnit)>>)>>]
     : p \in [1..MaxTree -> 1..(MaxTree + 1)]}

\* two transactions over the fixture's accounts, each split on either
\* non-root account or on a guid of no account
SplitChoices == SeqsUpTo({Guid("act", j) : j \in {0, 2, 3}}, MaxSplits)

TransactionDocs ==
    {[Bare EXCEPT
        !.transactions =
            [t \in 1..2 |->
                TransactionRec(t, EUR, t,
                    [i \in 1..Len(c[t]) |-> SplitRec(t, i, c[t][i], OneUnit)])]]
     : c \in [1..2 -> SplitChoices]}

\* commodity references of every kind, each to any pair
CommodityDocs ==
    {[Bare EXCEPT
        !.commodities = decls,
        !.prices = [i \in 1..Len(ps) |-> PriceRec(ps[i][1], ps[i][2])],
        !.accounts = <<AccountRec(1, RootName, "ROOT", None),
                       [AccountRec(2, <<"a">>, "BANK", Guid("act", 1))
                            EXCEPT !.commodity = ac]>>,
        !.transactions = <<TransactionRec(1, tc, 1, <<>>)>>]
     : decls \in SeqsUpTo(Pairs, MaxDecls),
       ps \in SeqsUpTo({EUR, USD} \X {EUR, FUND}, MaxPrices),
       ac \in {EUR, FUND}, tc \in {EUR, USD}}

\* entries owned by either of two invoices or by none, the invoices in
\* either document order
EntryChoices ==
    SeqsUpTo([invoice : {None, Guid("invoice", 1), Guid("invoice", 2)},
              taxed : BOOLEAN], MaxEntries)

EntryDocs ==
    {[Fixture EXCEPT
        !.entries = [i \in 1..Len(c) |->
                        EntryRec(i, c[i].invoice,
                                 IF c[i].taxed THEN <<"1">> ELSE None,
                                 IF c[i].taxed THEN Guid("taxtable", 1) ELSE None)],
        !.invoices = [i \in 1..2 |->
                        IF (i = 1) = first
                        THEN InvoiceRec(1, "gncCustomer", Guid("cust", 1))
                        ELSE InvoiceRec(2, "gncVendor", Guid("vendor", 1))]]
     : c \in EntryChoices, first \in BOOLEAN}

\* entries with or without the i-taxable element, of either text, and with
\* no i-taxtable element, the id of the tax table or the id of none
TaxChoices ==
    SeqsUpTo([taxable : {None, <<"1">>, <<"0">>},
              taxtable : {None, Guid("taxtable", 1), Guid("taxtable", 0)}], MaxTaxed)

TaxDocs ==
    {[Fixture EXCEPT
        !.entries = [i \in 1..Len(c) |->
                        EntryRec(i, Guid("invoice", 1), c[i].taxable, c[i].taxtable)]]
     : c \in TaxChoices}

\* invoices of every owner type, the owner id that of a record or of none
OwnerChoices ==
    {<<"gncCustomer", Guid("cust", 1)>>, <<"gncCustomer", Guid("cust", 0)>>,
     <<"gncVendor", Guid("vendor", 1)>>, <<"gncVendor", Guid("cust", 1)>>,
     <<"gncJob", Guid("job", 1)>>, <<"gncEmployee", Guid("employee", 1)>>}

InvoiceDocs ==
    {[Fixture EXCEPT
        !.invoices = [i \in 1..Len(c) |-> InvoiceRec(i, c[i][1], c[i][2])]]
     : c \in SeqsUpTo(OwnerChoices, MaxInvoices)}

\* the same documents under other root tags, and as XML that does not parse
RootTags == {"gnc-v2", "gnc-v1", "html"}

RootDocs ==
    {[d EXCEPT !.root = r, !.wellformed = w]
     : d \in InvoiceDocs, r \in RootTags, w \in BOOLEAN}

\* one to MaxTrns transactions over the fixture's accounts, the first of them
\* of any name, posted on either of two dates in any order, each of the same
\* number of splits
LedgerDocs ==
    {[Bare EXCEPT
        !.accounts[2].name = name,
        !.transactions =
            [t \in 1..Len(dates) |->
                TransactionRec(t, EUR, dates[t],
                    [i \in 1..n |-> SplitRec(t, i, Guid("act", i + 1),
                                             IF i = 1 THEN OneUnit ELSE MinusOneUnit)])]]
     : name \in Names, n \in 0..2, dates \in SeqsUpTo({1, 2}, MaxTrns) \ {<<>>}}

\* a slot element of a type and a text, and one with no type attribute
Slot(key, type_, text) ==
    [key |-> key, value |-> [attrib |-> {<<"type", type_>>}, text |-> text, frame |-> <<>>]]

UntypedSlot(key, text) ==
    [key |-> key, value |-> [attrib |-> {}, text |-> text, frame |-> <<>>]]

FrameSlot(key, elts) ==
    [key |-> key, value |-> [attrib |-> {<<"type", "frame">>}, text |-> None, frame |-> elts]]

\* a slot element inside n frames, each the only slot of the one around it
RECURSIVE Nested(_, _)
Nested(elt, n) == IF n = 0 THEN elt ELSE FrameSlot(<<"f">>, <<Nested(elt, n - 1)>>)

DateText == <<"2", "0", "1", "4", "-", "0", "1", "-", "0", "2">>

\* a slot of every recognized type, of types GnuCash writes that the parser
\* does not know, and of texts its type does not take
LeafSlots ==
    {Slot(<<"k">>, "integer", <<"5">>), Slot(<<"k">>, "integer", <<"-", "5">>),
     Slot(<<"k">>, "double", <<"7">>), Slot(<<"k">>, "double", <<"1", ".", "5">>),
     Slot(<<"k">>, "numeric", <<"1", "/", "2">>), Slot(<<"k">>, "string", <<"s">>),
     Slot(<<"k">>, "guid", <<"g">>), Slot(<<"k">>, "gdate", DateText),
     Slot(<<"k">>, "timespec", DateText), Slot(<<"k">>, "list", None),
     Slot(<<"k">>, "binary", <<"s">>), UntypedSlot(<<"k">>, <<"s">>)}

\* the slots of a frame of several: of either key, so that keys repeat
SiblingSlots ==
    UNION {{Slot(key, "string", <<"s">>), Slot(key, "integer", <<"5">>),
            Slot(key, "list", None),
            FrameSlot(key, <<Slot(<<"k">>, "string", <<"s">>)>>)}
           : key \in {<<"k">>, <<"m">>}}

SlotFrames ==
    {<<Nested(elt, n)>> : elt \in LeafSlots, n \in 0..MaxDepth}
        \cup SeqsUpTo(SiblingSlots, MaxSlots)

\* the places of a slot frame: book:slots, act:slots of the root account or
\* of another, trn:slots and split:slots
Places == {"book", "root", "account", "transaction", "split"}

WithSlots(place, frame) ==
    CASE place = "book"        -> [Fixture EXCEPT !.slots = frame]
      [] place = "root"        -> [Fixture EXCEPT !.accounts[1].slots = frame]
      [] place = "account"     -> [Fixture EXCEPT !.accounts[3].slots = frame]
      [] place = "transaction" -> [Fixture EXCEPT !.transactions[1].slots = frame]
      [] place = "split"       -> [Fixture EXCEPT !.transactions[1].splits[2].slots = frame]

SlotDocs == {WithSlots(place, frame) : place \in Places, frame \in SlotFrames}

\* ------------------------------------------------------------------------
\* Specifications
\* ------------------------------------------------------------------------

\* no call of _parse_number on its own
InitNumbers == numstring = <<>> /\ frac = <<>> /\ ret = NoRet

InitLoader ==
    /\ pc = "parse" /\ idx = 1 /\ err = ""
    /\ heap = <<>> /\ commoditydict = EmptyDict /\ commodities = <<>> /\ prices = <<>>
    /\ root_account = 0 /\ accountdict = EmptyDict /\ parentdict = EmptyDict
    /\ acct = <<>> /\ accounts = <<>>
    /\ transactions = <<>> /\ splits = <<>>
    /\ customersdict = EmptyDict /\ vendorsdict = EmptyDict
    /\ taxtablesdict = EmptyDict /\ entriesdict = EmptyDict /\ invoices = <<>>
    /\ slots = EmptyDict
    /\ walk = NoWalk /\ call = NoCall

Load ==
    \/ Parse
    \/ LoadCommodity
    \/ LoadPrice
    \/ LoadAccount
    \/ LinkAccount
    \/ LoadTransaction
    \/ LoadCustomer
    \/ LoadVendor
    \/ LoadTaxtable
    \/ LoadEntry
    \/ LoadInvoice
    \/ ReturnBook

Read ==
    CallFullname \/ CallWalk \/ NextWalk \/ CallFindAccount \/ CallFindGuid \/ CallLedger

Next == Load \/ Read

\* the documents of every specification below
Init ==
    /\ InitNumbers
    /\ InitLoader
    /\ \/ doc \in AccountDocs \/ doc \in NameDocs \/ doc \in TreeDocs
       \/ doc \in TransactionDocs \/ doc \in CommodityDocs \/ doc \in EntryDocs
       \/ doc \in InvoiceDocs \/ doc \in RootDocs \/ doc \in SlotDocs
       \/ doc \in LedgerDocs \/ doc \in TaxDocs

Spec == Init /\ [][Next]_vars

InitAccounts ==
    /\ InitNumbers
    /\ InitLoader
    /\ doc \in (AccountDocs \cup NameDocs \cup TreeDocs \cup TransactionDocs
                   \cup {Fixture})

SpecAccounts == InitAccounts /\ [][Next]_vars

\* a consumer of Book.walk() is a for loop: it calls next() until the
\* generator is exhausted
SpecWalk == InitAccounts /\ [][Next]_vars /\ WF_vars(NextWalk)

InitCommodities == InitNumbers /\ InitLoader /\ doc \in (CommodityDocs \cup {Fixture})

SpecCommodities == InitCommodities /\ [][Next]_vars

InitBusiness ==
    /\ InitNumbers
    /\ InitLoader
    /\ doc \in (EntryDocs \cup InvoiceDocs \cup RootDocs \cup TaxDocs)

SpecBusiness == InitBusiness /\ [][Next]_vars

InitLedger == InitNumbers /\ InitLoader /\ doc \in (LedgerDocs \cup TreeDocs \cup {Fixture})

SpecLedger == InitLedger /\ [][Next]_vars

InitSlots == InitNumbers /\ InitLoader /\ doc \in SlotDocs

SpecSlots == InitSlots /\ [][Next]_vars

\* the text is that of a fraction of two integers, or free text
InitCall ==
    /\ InitLoader
    /\ doc = Fixture
    /\ ret = NoRet
    /\ \/ \E f \in Fractions :
             /\ numstring = IntText(f[1]) \o <<"/">> \o IntText(f[2])
             /\ frac = f
       \/ \E text \in Texts : numstring = text /\ frac = <<>>

NextNumbers == CallParseNumber

SpecNumbers == InitCall /\ [][NextNumbers]_vars

\* ------------------------------------------------------------------------
\* Properties
\* ------------------------------------------------------------------------

\* the accounts of the account map
AccountObjects == Range(Values(accountdict))

\* the account at the top of the parent chain of a, 0 when the chain visits
\* more accounts than there are, that is, when it runs into a cycle
RECURSIVE ChainTop(_, _, _)
ChainTop(objs, a, fuel) ==
    IF fuel = 0 THEN 0
    ELSE IF objs[a].parent = 0 THEN a
    ELSE ChainTop(objs, objs[a].parent, fuel - 1)

\* the number of parent links above a
RECURSIVE Depth(_, _, _)
Depth(objs, a, fuel) ==
    IF fuel = 0 \/ objs[a].parent = 0 THEN 0
    ELSE 1 + Depth(objs, objs[a].parent, fuel - 1)

\* one rooted tree: the root is the only account without a parent, and every
\* parent chain ends in it without visiting an account twice
RootedTree ==
    /\ root_account # 0
    /\ {a \in AccountObjects : acct[a].parent = 0} = {root_account}
    /\ \A a \in AccountObjects : ChainTop(acct, a, Len(acct)) = root_account

\* C1: after any successful load of any account records, the accounts form
\* one rooted tree: exactly one root, every other account with one parent,
\* and every parent chain reaching the root without a cycle or a self-parent.
C1_RootedTree == pc = "done" => RootedTree

\* a Book was returned whose root exists while an account is its own ancestor
C1_LoadedCycle ==
    /\ pc = "done"
    /\ root_account # 0
    /\ \E a \in AccountObjects : ChainTop(acct, a, Len(acct)) = 0

\* C2: for every non-root account A of a Book whose accounts form a rooted
\* tree, fullname() is fullname(parent) + ":" + name when the parent is not
\* the root, and the name when it is, whatever the parent's own name or full
\* name, empty included.
C2_FullnameJoinsParent ==
    (/\ call.op = "fullname"
     /\ RootedTree
     /\ call.arg # root_account
     /\ acct[call.arg].name # None)
    => /\ ~call.raised
       /\ call.text = IF acct[call.arg].parent = root_account
                      THEN acct[call.arg].name
                      ELSE fullname(acct[call.arg].parent).text \o <<":">>
                               \o acct[call.arg].name

\* in a rooted tree, fullname() of an account whose parent is a non-root
\* account of empty name gave the bare name
C2_EmptyParentName ==
    /\ pc = "done"
    /\ RootedTree
    /\ call.op = "fullname"
    /\ acct[call.arg].parent \notin {0, root_account}
    /\ acct[acct[call.arg].parent].name = None
    /\ call.text = <<"a">>

\* every commodity reference resolved so far: <<the pair the record carries,
\* the instance it was resolved to>>
References ==
    {<<doc.commodities[i], commodities[i]>> : i \in 1..Len(commodities)}
        \cup {<<doc.prices[i].currency, prices[i].currency>> : i \in 1..Len(prices)}
        \cup {<<doc.prices[i].commodity, prices[i].commodity>> : i \in 1..Len(prices)}
        \cup {<<doc.accounts[a].commodity, acct[a].commodity>>
                 : a \in {b \in 1..Len(acct) : acct[b].actype # "ROOT"}}
        \cup {<<doc.transactions[t].currency, transactions[t].currency>>
                 : t \in 1..Len(transactions)}

\* C3: all references of one load that carry one (namespace, symbol) pair are
\* resolved to one and the same Commodity instance, the one the registry
\* holds for the pair, and the registry holds one instance per pair.
C3_OneInstancePerPair ==
    /\ \A r \in References :
          /\ r[2] \in 1..Len(heap)
          /\ heap[r[2]] = Commodity(r[1])
          /\ Has(commoditydict, r[1])
          /\ Get(commoditydict, r[1]) = r[2]
    /\ \A r1, r2 \in References : r1[1] = r2[1] => r1[2] = r2[2]
    /\ \A i, j \in 1..Len(commoditydict.keys) :
          (commoditydict.keys[i] = commoditydict.keys[j]
              \/ heap[commoditydict.val[i]] = heap[commoditydict.val[j]]) => i = j

\* a declaration, a price, an account and a transaction of one load carry
\* the same pair, and more instances were constructed than the registry holds
C3_SharedByAllKinds ==
    /\ pc = "done"
    /\ Len(commodities) >= 1 /\ Len(prices) >= 1
    /\ Len(acct) >= 2 /\ Len(transactions) >= 1
    /\ prices[1].currency = commodities[1]
    /\ acct[2].commodity = commodities[1]
    /\ transactions[1].currency = commodities[1]
    /\ Len(heap) > Len(commoditydict.keys)

\* a Decimal of exponent -2 in hundredths
Hundredths(x) == (IF x.sign = 1 THEN -1 ELSE 1) * NatOf(x.int)

\* the least integer not below a / b, for a >= 0 and b > 0
CeilDiv(a, b) == (a + b - 1) \div b

\* C4 as stated: for integers n and d > 0, _parse_number("n/d") is n/d at
\* two decimals, rounded in the positive direction when n/d is not exact at
\* two decimals and unchanged when it is.
C4_RoundsTowardPositive ==
    (frac # <<>> /\ ret.kind # "none")
    => /\ ret.kind = "return"
       /\ ret.val.exp = -2
       /\ Hundredths(ret.val) = IF frac[1] >= 0
                                THEN CeilDiv(frac[1] * 100, frac[2])
                                ELSE -((Abs(frac[1]) * 100) \div frac[2])

\* C4: for integers n and d > 0, _parse_number("n/d") is n/d at two
\* decimals, rounded away from zero when n/d is not exact at two decimals
\* (up for a positive n, down for a negative one) and unchanged when it is.
C4_RoundsAwayFromZero ==
    (frac # <<>> /\ ret.kind # "none")
    => /\ ret.kind = "return"
       /\ ret.val.exp = -2
       /\ Hundredths(ret.val) = (IF frac[1] < 0 THEN -1 ELSE 1)
                                    * CeilDiv(Abs(frac[1]) * 100, frac[2])

\* "-333/1000" came back as -0.34
C4_NegativeRounded ==
    /\ frac = <<-333, 1000>>
    /\ ret.kind = "return"
    /\ Hundredths(ret.val) = -34

\* the text of an integer: digits, after an optional sign
IsInteger(s) ==
    LET body == IF s # <<>> /\ Head(s) \in {"-", "+"} THEN Tail(s) ELSE s
    IN  body # <<>> /\ IsDigits(body)

\* not exactly one "/", or a side that is not an integer
Malformed(s) ==
    \/ Len(Split(s, "/")) # 2
    \/ ~IsInteger(Split(s, "/")[1])
    \/ ~IsInteger(Split(s, "/")[2])

\* C5: _parse_number fails with the format error, the ValueError of a wrong
\* root tag, for every text without exactly one "/" and for every text with
\* a side that is not an integer; it returns no value for such a text.
C5_MalformedIsFormatError ==
    (ret.kind # "none" /\ Malformed(numstring))
    => (ret.kind = "raise" /\ ret.exc = "ValueError")

\* "1.5/2" came back as 0.75
C5_NonIntegerReturned ==
    /\ numstring = <<"1", ".", "5", "/", "2">>
    /\ ret.kind = "return"
    /\ Hundredths(ret.val) = 75

\* the entry records of the document owned by the invoice of guid g
OwnedBy(g) == {k \in 1..Len(doc.entries) : doc.entries[k].invoice = g}

\* C6: the entries of every loaded invoice of guid G are exactly the Entry
\* records of the document whose owning-invoice guid is G, each once, in
\* whatever order the records stand; an entry owned by no invoice is in none.
C6_EntriesOfInvoice ==
    \A i \in 1..Len(invoices) :
        /\ Len(invoices[i].entries) = Cardinality(OwnedBy(invoices[i].guid))
        /\ {e.id : e \in Range(invoices[i].entries)} = OwnedBy(invoices[i].guid)
        /\ \A e \in Range(invoices[i].entries) :
              /\ e.guid = doc.entries[e.id].guid
              /\ e.invoice_guid # None

\* the invoice that stands first in the document owns the first and the
\* third entry, and the entry between them is owned by no invoice
C6_InterleavedEntries ==
    /\ pc = "done"
    /\ Len(invoices) = 2
    /\ invoices[1].guid = Guid("invoice", 2)
    /\ Len(invoices[1].entries) = 2
    /\ invoices[1].entries[1].id = 1
    /\ invoices[1].entries[2].id = 3
    /\ doc.entries[2].invoice = None

\* C7: every Invoice of a returned Book has exactly one of customer and
\* vendor set, for every owner type with which the load succeeds.
C7_ExactlyOneOwner ==
    pc = "done" =>
        \A i \in 1..Len(invoices) :
            (invoices[i].customer = None) # (invoices[i].vendor = None)

\* a Book was returned with an invoice of owner type gncJob and no owner
C7_JobInvoiceLoaded ==
    /\ pc = "done"
    /\ \E i \in 1..Len(invoices) :
          /\ doc.invoices[i].owner_type = "gncJob"
          /\ invoices[i].customer = None
          /\ invoices[i].vendor = None

\* the concatenation of the split lists of the triples yielded so far
RECURSIVE YieldedSplits(_)
YieldedSplits(out) ==
    IF out = <<>> THEN <<>>
    ELSE YieldedSplits(SubSeq(out, 1, Len(out) - 1)) \o out[Len(out)].splits

\* the guids of the split records of the document
SplitGuids ==
    UNION {{doc.transactions[t].splits[i].guid : i \in 1..Len(doc.transactions[t].splits)}
              : t \in 1..Len(doc.transactions)}

\* C8: Book.walk() on a loaded Book yields each account of the document,
\* the root included, exactly once, and the split lists it yields hold
\* every split of the document exactly once.
C8_WalkCoversDocument ==
    /\ pc = "done" => walk.st # "raised"
    /\ (pc = "done" /\ walk.st = "finished")
       => /\ Len(walk.out) = Len(doc.accounts)
          /\ {acct[walk.out[i].acc].guid : i \in 1..Len(walk.out)}
                 = {doc.accounts[i].guid : i \in 1..Len(doc.accounts)}
          /\ Len(YieldedSplits(walk.out)) = Cardinality(SplitGuids)
          /\ {splits[x].guid : x \in Range(YieldedSplits(walk.out))} = SplitGuids

\* the walk of a returned Book ended without yielding an account that is its
\* own parent
C8_WalkSkipsCycle ==
    /\ pc = "done"
    /\ walk.st = "finished"
    /\ \E a \in AccountObjects :
          /\ acct[a].parent = a
          /\ \A i \in 1..Len(walk.out) : walk.out[i].acc # a

\* what the walk has yielded so far is the start of a breadth-first order
BreadthFirst ==
    walk.st \in {"running", "finished"} =>
        /\ Len(walk.out) >= 1 => walk.out[1].acc = root_account
        /\ \A i \in 2..Len(walk.out) :
              \E j \in 1..(i - 1) : walk.out[j].acc = acct[walk.out[i].acc].parent
        /\ \A i \in 1..(Len(walk.out) - 1) :
              Depth(acct, walk.out[i].acc, Len(acct))
                  <= Depth(acct, walk.out[i + 1].acc, Len(acct))
        /\ \A i, j \in 1..Len(walk.out) :
              (i < j /\ acct[walk.out[i].acc].parent = acct[walk.out[j].acc].parent)
              => IndexOf(acct[acct[walk.out[i].acc].parent].children, {walk.out[i].acc})
                     < IndexOf(acct[acct[walk.out[j].acc].parent].children, {walk.out[j].acc})
        /\ \A i \in 1..Len(walk.out) :
              walk.out[i].children = acct[walk.out[i].acc].children
        /\ Len(walk.out) + Len(walk.queue) <= Len(acct)

\* C9: Book.walk() is a finite breadth-first traversal: it ends, the root is
\* yielded first, every account after its parent, no account before one of
\* lesser depth, siblings in the order of the children list, and the second
\* component of each triple is the list of the account's direct children.
C9_FiniteBreadthFirst ==
    /\ []BreadthFirst
    /\ (walk.st = "running") ~> (walk.st = "finished")

\* a walk ended that yielded a grandchild of the root after two children of
\* the root, the first of which is its parent
C9_WalkedTwoLevels ==
    /\ walk.st = "finished"
    /\ Len(walk.out) >= 4
    /\ acct[walk.out[2].acc].parent = root_account
    /\ acct[walk.out[3].acc].parent = root_account
    /\ acct[walk.out[4].acc].parent = walk.out[2].acc

\* no builder stage has run: nothing was constructed or stored
NothingBuilt ==
    /\ heap = <<>> /\ commoditydict = EmptyDict /\ commodities = <<>> /\ prices = <<>>
    /\ root_account = 0 /\ accountdict = EmptyDict /\ parentdict = EmptyDict
    /\ acct = <<>> /\ accounts = <<>> /\ transactions = <<>> /\ splits = <<>>
    /\ customersdict = EmptyDict /\ vendorsdict = EmptyDict
    /\ taxtablesdict = EmptyDict /\ entriesdict = EmptyDict /\ invoices = <<>>
    /\ slots = EmptyDict

\* C10: parse() of a document whose root tag is not gnc-v2 fails with the
\* format error (ValueError) before any builder stage runs, and returns no
\* Book.
C10_WrongRootTag ==
    doc.root # "gnc-v2" =>
        /\ pc \in {"parse", "failed"}
        /\ pc = "failed" => err = "ValueError"
        /\ NothingBuilt

\* parse() of XML that parses, with records to build from, under the root
\* tag gnc-v1 has failed
C10_WrongTagFailed ==
    /\ doc.wellformed
    /\ doc.root = "gnc-v1"
    /\ Len(doc.invoices) >= 1
    /\ pc = "failed"
    /\ err = "ValueError"

\* the guids of the account records of a document
AccountGuids(d) == {d.accounts[i].guid : i \in 1..Len(d.accounts)}

\* a non-root account record names a parent of no record
DanglingParent(d) ==
    \E i \in 1..Len(d.accounts) :
        /\ d.accounts[i].actype # "ROOT"
        /\ d.accounts[i].parent \notin AccountGuids(d)

\* a split record names an account of no record
DanglingSplit(d) ==
    \E t \in 1..Len(d.transactions) :
        \E i \in 1..Len(d.transactions[t].splits) :
            d.transactions[t].splits[i].account \notin AccountGuids(d)

\* C11: a document in which a non-root account names a parent guid of no
\* account record, or a split names an account guid of no account record,
\* never yields a Book; in every Book that is returned the parent of each
\* listed account and the account of each split is a loaded account object.
C11_UnresolvedIsFatal ==
    /\ (DanglingParent(doc) \/ DanglingSplit(doc)) => pc # "done"
    /\ pc = "done" =>
          /\ \A k \in 1..Len(accounts) :
                /\ acct[accounts[k]].parent \in 1..Len(acct)
                /\ acct[acct[accounts[k]].parent].guid
                       \in AccountGuids(doc)
          /\ \A s \in 1..Len(splits) :
                /\ splits[s].account \in 1..Len(acct)
                /\ acct[splits[s].account].guid \in AccountGuids(doc)

\* witness of C11: the accounts were all built and linked, and the load
\* failed on a split of the second transaction that names no account
C11_SplitOfNoAccount ==
    /\ pc = "failed" /\ err = "KeyError"
    /\ ~DanglingParent(doc) /\ DanglingSplit(doc)
    /\ Len(accounts) = 2
    /\ Len(transactions) = 1

\* the slot frames of a document: those the loader reads
DocFrames(d) ==
    {d.slots}
        \cup {d.accounts[i].slots : i \in 1..Len(d.accounts)}
        \cup {d.transactions[t].slots : t \in 1..Len(d.transactions)}
        \cup UNION {{d.transactions[t].splits[i].slots
                        : i \in 1..Len(d.transactions[t].splits)}
                    : t \in 1..Len(d.transactions)}

RecognizedTypes ==
    {"integer", "double", "numeric", "string", "guid", "gdate", "timespec", "frame"}

\* a slot of an unrecognized type in the frame, or in a frame below it
RECURSIVE UnknownType(_)
UnknownType(elts) ==
    \E i \in 1..Len(elts) :
        \/ SlotType(elts[i].value) \notin RecognizedTypes
        \/ SlotType(elts[i].value) = "frame" /\ UnknownType(elts[i].value.frame)

\* C12: a slot value whose type tag is none of integer, double, numeric,
\* string, guid, gdate, timespec and frame, at any depth of the book's, an
\* account's, a transaction's or a split's slot frame, makes the load fail:
\* no Book is returned.  The failure of the slot parser itself (RuntimeError)
\* occurs for such tags only.
C12_UnknownTypeIsFatal ==
    /\ (\E f \in DocFrames(doc) : UnknownType(f)) => pc # "done"
    /\ (pc = "failed" /\ err = "RuntimeError") => \E f \in DocFrames(doc) : UnknownType(f)

\* witness of C12: the load failed in the slot parser on a slot of unknown
\* type that lies MaxDepth frames deep in the slots of a split
C12_UnknownTypeInSplit ==
    /\ pc = "failed" /\ err = "RuntimeError"
    /\ doc.transactions[1].splits[2].slots
           = <<Nested(Slot(<<"k">>, "list", None), MaxDepth)>>
    /\ Len(accounts) = 2 /\ transactions = <<>>

RECURSIVE Mirrors(_, _)

\* the parsed value v is of the Python type the slot's type tag stands for,
\* and its value that of the slot's text
TypedAs(value, v) ==
    LET type_ == SlotType(value)
    IN  CASE type_ = "frame" -> v.py = "dict" /\ Mirrors(value.frame, v.v)
          [] type_ \in {"integer", "double"} -> v.py = "int" /\ IntText(v.v) = value.text
          [] type_ = "numeric" ->
                 v.py = "Decimal" /\ v.v = _parse_number(value.text).val
          [] type_ \in {"string", "guid"} -> v.py = "str" /\ v.v = value.text
          [] type_ \in {"gdate", "timespec"} ->
                 v.py = "datetime" /\ v = parse_date(value.text).val
          [] OTHER -> FALSE

\* the mapping d has one key per slot element of the frame, each mapped to
\* the typed value of that element, a frame to the mapping of its own slots
Mirrors(elts, d) ==
    /\ Len(d.keys) = Len(elts)
    /\ \A i \in 1..Len(elts) :
          /\ Has(d, elts[i].key)
          /\ TypedAs(elts[i].value, Get(d, elts[i].key))

\* C13: in a returned Book the mapping of every slot frame (the book's, each
\* account's, each transaction's, each split's) mirrors the frame: one key
\* per slot element at each level, a frame slot mapped to its nested
\* mapping, an absent frame to the empty mapping, each leaf typed by its
\* tag; no slot element is missing, also when two slots of a frame have the
\* same key.
C13_MirrorsNesting ==
    pc = "done" =>
        /\ Mirrors(doc.slots, slots)
        /\ \A i \in 1..Len(doc.accounts) : Mirrors(doc.accounts[i].slots, acct[i].slots)
        /\ \A t \in 1..Len(doc.transactions) :
              /\ Mirrors(doc.transactions[t].slots, transactions[t].slots)
              /\ \A i \in 1..Len(doc.transactions[t].splits) :
                    Mirrors(doc.transactions[t].splits[i].slots,
                            splits[transactions[t].splits[i]].slots)

\* witness of C13: a Book was returned for a book:slots frame of two slots
\* of the key "k", a string and an integer, and its mapping has the one key
\* "k" with the integer
C13_DuplicateKeyLost ==
    /\ pc = "done"
    /\ doc.slots = <<Slot(<<"k">>, "string", <<"s">>), Slot(<<"k">>, "integer", <<"5">>)>>
    /\ slots = [keys |-> <<(<<"k">>)>>, val |-> <<[py |-> "int", v |-> 5]>>]

\* the triples of Book.walk() on the returned Book, in order
WalkOrder == WalkFrom([st |-> "running", queue |-> <<root_account>>, out |-> <<>>], acct)

\* C14: find_account(name) returns the first account, in the order of
\* Book.walk(), whose bare name is name, and nothing when no account has
\* that name; find_guid(guid) returns the account or the transaction of that
\* guid, for every account and every transaction of the loaded document,
\* and nothing when there is none.
C14_FindsByNameAndGuid ==
    /\ call.op = "find_account" =>
          /\ ~call.raised
          /\ IF \E a \in 1..Len(acct) : acct[a].name = call.key
             THEN \E k \in 1..Len(WalkOrder) :
                     /\ call.item = <<"Account", WalkOrder[k].acc>>
                     /\ acct[WalkOrder[k].acc].name = call.key
                     /\ \A j \in 1..(k - 1) : acct[WalkOrder[j].acc].name # call.key
             ELSE call.item = None
    /\ call.op = "find_guid" =>
          /\ \A a \in 1..Len(acct) :
                acct[a].guid = call.key => call.item = <<"Account", a>>
          /\ \A t \in 1..Len(transactions) :
                transactions[t].guid = call.key => call.item = <<"Transaction", t>>
          /\ (/\ \A a \in 1..Len(acct) : acct[a].guid # call.key
              /\ \A t \in 1..Len(transactions) : transactions[t].guid # call.key)
                 => call.item = None

\* witness of C14: on a Book whose accounts are one rooted tree,
\* find_guid of the root account's guid returned nothing
C14_RootNotFound ==
    /\ call.op = "find_guid"
    /\ RootedTree
    /\ call.key = acct[root_account].guid
    /\ call.item = None

\* the positions of the transaction lines of a ledger
TransactionHeads(lines) == {p \in 1..Len(lines) : lines[p].kind = "transaction"}

\* the line at p renders transaction t and is followed by the lines of
\* exactly the splits of t, in the order of its split list
FollowedByOwnSplits(lines, p, t) ==
    LET own == transactions[t].splits
    IN  /\ lines[p].item = t /\ lines[p].date = transactions[t].date
        /\ p + Len(own) + 1 <= Len(lines)
        /\ \A i \in 1..Len(own) :
              /\ lines[p + i].kind = "split"
              /\ lines[p + i].item = own[i]
              /\ lines[p + i].value = splits[own[i]].value
        /\ lines[p + Len(own) + 1].kind = "blank"

\* C15: ledger() renders every transaction of the Book exactly once, in
\* non-decreasing order of posted date, each followed by exactly its own
\* splits in split-list order.
C15_LedgerByDate ==
    call.op = "ledger" =>
        /\ ~call.raised
        /\ \A t \in 1..Len(transactions) :
              \E p \in TransactionHeads(call.text) :
                  /\ FollowedByOwnSplits(call.text, p, t)
                  /\ \A q \in TransactionHeads(call.text) : call.text[q].item = t => q = p
        /\ \A p, q \in TransactionHeads(call.text) :
              p < q => call.text[p].date <= call.text[q].date
        /\ Cardinality({p \in 1..Len(call.text) : call.text[p].kind = "split"})
               = Len(splits)

\* witness of C15: on a Book whose accounts are one rooted tree, with
\* transactions posted out of date order, ledger() raised TypeError
C15_LedgerRaised ==
    /\ call.op = "ledger" /\ call.exc = "TypeError"
    /\ RootedTree
    /\ Len(transactions) = 2
    /\ transactions[2].date < transactions[1].date

\* the split records of a document, in document order
RECURSIVE DocSplitsFrom(_, _)
DocSplitsFrom(d, t) ==
    IF t > Len(d.transactions) THEN <<>>
    ELSE d.transactions[t].splits \o DocSplitsFrom(d, t + 1)

\* the places of the split object s in the split lists of the transactions
\* and of the accounts
InTransactions(s) ==
    {<<t, i>> \in (1..Len(transactions)) \X (1..Len(splits)) :
        i <= Len(transactions[t].splits) /\ transactions[t].splits[i] = s}

InAccounts(s) ==
    {<<a, i>> \in (1..Len(acct)) \X (1..Len(splits)) :
        i <= Len(acct[a].splits) /\ acct[a].splits[i] = s}

\* C16: in a returned Book the Split objects are those of the split records,
\* in document order; every split is exactly once in the split list of its
\* transaction and exactly once in the split list of the account its record
\* names, and in no other list; its transaction and account references are
\* those objects; every account's split list is in document order.
C16_SplitInBothLists ==
    pc = "done" =>
        /\ Len(splits) = Len(DocSplitsFrom(doc, 1))
        /\ \A s \in 1..Len(splits) :
              /\ splits[s].guid = DocSplitsFrom(doc, 1)[s].guid
              /\ acct[splits[s].account].guid = DocSplitsFrom(doc, 1)[s].account
              /\ Cardinality(InTransactions(s)) = 1
              /\ \A p \in InTransactions(s) : p[1] = splits[s].transaction
              /\ Cardinality(InAccounts(s)) = 1
              /\ \A p \in InAccounts(s) : p[1] = splits[s].account
        /\ \A a \in 1..Len(acct) :
              \A i, j \in 1..Len(acct[a].splits) :
                  i < j => acct[a].splits[i] < acct[a].splits[j]

\* witness of C16: a Book of two transactions of two splits, the first and
\* the last split of the document on one account, the two between on another
C16_SplitsOfTwoTransactions ==
    /\ pc = "done"
    /\ Len(transactions) = 2
    /\ transactions[1].splits = <<1, 2>> /\ transactions[2].splits = <<3, 4>>
    /\ \E a, b \in 1..Len(acct) : acct[a].splits = <<1, 4>> /\ acct[b].splits = <<2, 3>>

\* how often x occurs in a sequence
Count(seq, x) == Cardinality({k \in 1..Len(seq) : seq[k] = x})

\* C17: whatever the order of the account records (a child before its
\* parent, the root last), in a returned Book the parent of every non-root
\* account is the account of the guid its record declares, every non-root
\* account is exactly once in the children of that parent, in no other
\* children list, and exactly once in Book.accounts; a root account is not
\* in Book.accounts, whose length is the number of non-root records.
C17_TwoPassAnyOrder ==
    pc = "done" =>
        /\ Len(acct) = Len(doc.accounts)
        /\ \A i \in 1..Len(doc.accounts) :
              /\ acct[i].guid = doc.accounts[i].guid
              /\ IF doc.accounts[i].actype = "ROOT"
                 THEN Count(accounts, i) = 0
                 ELSE /\ acct[i].parent \in 1..Len(acct)
                      /\ acct[acct[i].parent].guid = doc.accounts[i].parent
                      /\ \A p \in 1..Len(acct) :
                            Count(acct[p].children, i)
                                = IF p = acct[i].parent THEN 1 ELSE 0
                      /\ Count(accounts, i) = 1
        /\ Len(accounts)
               = Cardinality({i \in 1..Len(doc.accounts) : doc.accounts[i].actype # "ROOT"})

\* witness of C17: a Book returned for a document whose first record is a
\* child of the second, the second a child of the third, the third the root
C17_RootLast ==
    /\ pc = "done"
    /\ Len(doc.accounts) = 3
    /\ doc.accounts[1].parent = Guid("act", 2)
    /\ doc.accounts[2].parent = Guid("act", 3)
    /\ doc.accounts[3].actype = "ROOT"
    /\ accounts = <<1, 2>> /\ acct[3].children = <<2>> /\ acct[2].children = <<1>>

\* the place of a stage in the order the loader is to keep
Rank(p) ==
    CASE p = "parse" -> 0 [] p = "commodity" -> 1 [] p = "price" -> 2
      [] p = "account" -> 3 [] p = "link" -> 4 [] p = "transaction" -> 5
      [] p = "customer" -> 6 [] p = "vendor" -> 7 [] p = "taxtable" -> 8
      [] p = "entry" -> 9 [] p = "invoice" -> 10 [] p = "slots" -> 11
      [] p = "done" -> 12 [] p = "failed" -> 13

\* the load is past the stage s
Past(s) == pc # "failed" /\ Rank(pc) > Rank(s)

\* every record of the family is in the map of its kind
AllIn(recs, dict) == \A i \in 1..Len(recs) : Has(dict, recs[i].guid)

\* once a stage is past, what it builds holds every record of its kind
Populated ==
    /\ Past("commodity") => \A i \in 1..Len(doc.commodities) :
                                Has(commoditydict, doc.commodities[i])
    /\ Past("account") => AllIn(doc.accounts, accountdict)
    /\ Past("link") => \A i \in 1..Len(doc.accounts) :
                           doc.accounts[i].actype # "ROOT" => acct[i].parent # 0
    /\ Past("transaction") => Len(transactions) = Len(doc.transactions)
    /\ Past("customer") => AllIn(doc.customers, customersdict)
    /\ Past("vendor") => AllIn(doc.vendors, vendorsdict)
    /\ Past("taxtable") => AllIn(doc.taxtables, taxtablesdict)
    /\ Past("entry") => AllIn(doc.entries, entriesdict)
    /\ Past("invoice") => Len(invoices) = Len(doc.invoices)

\* the load never returns to an earlier stage
StagesInOrder == pc' # "failed" => Rank(pc') >= Rank(pc)

\* what a stage builds changes in that stage only
OneStageAtATime ==
    /\ cmdtyVars' # cmdtyVars => pc \in {"commodity", "price"}
    /\ acctVars' # acctVars => pc \in {"account", "link", "transaction"}
    /\ <<root_account, accountdict, parentdict, accounts>>'
           # <<root_account, accountdict, parentdict, accounts>>
               => pc \in {"account", "link"}
    /\ trnVars' # trnVars => pc = "transaction"
    /\ customersdict' # customersdict => pc = "customer"
    /\ vendorsdict' # vendorsdict => pc = "vendor"
    /\ taxtablesdict' # taxtablesdict => pc = "taxtable"
    /\ entriesdict' # entriesdict => pc = "entry"
    /\ invoices' # invoices => pc = "invoice"
    /\ slots' # slots => pc = "slots"

\* C18: the stages of the loader run in the order commodities, accounts
\* (both passes), transactions with their splits, customers, vendors, tax
\* tables, entries, invoices, book slots, each completing before the next
\* starts; so a stage that resolves a reference reads a map that already
\* holds every record of the kind it resolves.
C18_StagesInDependencyOrder ==
    []Populated /\ [][StagesInOrder /\ OneStageAtATime]_vars

\* witness of C18: the first invoice of two is about to be built, and the
\* maps it resolves its owner and entries from hold every customer, vendor
\* and all MaxEntries entries of the document
C18_InvoicesReadFullMaps ==
    /\ pc = "invoice" /\ idx = 1 /\ invoices = <<>>
    /\ Len(doc.invoices) = 2
    /\ Len(doc.entries) = MaxEntries /\ Len(entriesdict.keys) = MaxEntries
    /\ AllIn(doc.customers, customersdict) /\ AllIn(doc.vendors, vendorsdict)

\* the load ended at the account record, or at the transaction record, that
\* was next to be built, and the pair it references is not in the registry
AccountRefused ==
    /\ pc = "failed"
    /\ Len(acct) < Len(doc.accounts)
    /\ doc.accounts[Len(acct) + 1].actype # "ROOT"
    /\ ~Has(commoditydict, doc.accounts[Len(acct) + 1].commodity)

TransactionRefused ==
    /\ pc = "failed"
    /\ Len(acct) = Len(doc.accounts)
    /\ Len(transactions) < Len(doc.transactions)
    /\ ~Has(commoditydict, doc.transactions[Len(transactions) + 1].currency)

\* C19: an account or a transaction that references a (namespace, symbol)
\* pair not yet in the registry gets a newly registered Commodity and the
\* load continues, as for a price: no load ends at such a record, and the
\* commodity of every account and the currency of every transaction built
\* is the registry's Commodity of the pair its record names.
C19_LazyForAllBuilders ==
    /\ ~AccountRefused
    /\ ~TransactionRefused
    /\ \A i \in 1..Len(acct) :
          acct[i].actype # "ROOT" =>
              /\ Has(commoditydict, doc.accounts[i].commodity)
              /\ acct[i].commodity = Get(commoditydict, doc.accounts[i].commodity)
              /\ heap[acct[i].commodity] = Commodity(doc.accounts[i].commodity)
    /\ \A t \in 1..Len(transactions) :
          /\ Has(commoditydict, doc.transactions[t].currency)
          /\ transactions[t].currency = Get(commoditydict, doc.transactions[t].currency)

\* the pairs the registry holds when the accounts are built: those of the
\* commodity declarations and those the prices reference
RegisteredPairs(d) ==
    Range(d.commodities)
        \cup {d.prices[k].currency : k \in 1..Len(d.prices)}
        \cup {d.prices[k].commodity : k \in 1..Len(d.prices)}

\* C19 as the code has it: the registry creates a Commodity on first
\* reference for the commodity declarations and the price builder only.  A
\* price that references an undeclared pair gets the registry's Commodity of
\* that pair and the load continues; the account and the transaction builder
\* look the pair up, so an account or a transaction is built only for a pair
\* that a declaration or a price registered, with the registry's Commodity,
\* and the load ends with KeyError at the first record of another pair.
C19_LazyForPricesOnly ==
    /\ \A k \in 1..Len(prices) :
          /\ prices[k].commodity = Get(commoditydict, doc.prices[k].commodity)
          /\ prices[k].currency = Get(commoditydict, doc.prices[k].currency)
          /\ heap[prices[k].commodity] = Commodity(doc.prices[k].commodity)
    /\ \A i \in 1..Len(acct) :
          acct[i].actype # "ROOT" =>
              /\ doc.accounts[i].commodity \in RegisteredPairs(doc)
              /\ acct[i].commodity = Get(commoditydict, doc.accounts[i].commodity)
    /\ \A t \in 1..Len(transactions) :
          /\ doc.transactions[t].currency \in RegisteredPairs(doc)
          /\ transactions[t].currency = Get(commoditydict, doc.transactions[t].currency)
    /\ (AccountRefused \/ TransactionRefused) => err = "KeyError"
    /\ (\E i \in 1..Len(doc.accounts) :
           /\ doc.accounts[i].actype # "ROOT"
           /\ doc.accounts[i].commodity \notin RegisteredPairs(doc)) => pc # "done"
    /\ (\E t \in 1..Len(doc.transactions) :
           doc.transactions[t].currency \notin RegisteredPairs(doc)) => pc # "done"

\* witness of C19: a price had its undeclared pair registered on first
\* reference, and the load then ended with KeyError at an account whose
\* commodity is in no declaration and no price
C19_UndeclaredRefused ==
    /\ AccountRefused /\ err = "KeyError"
    /\ Len(prices) = 1
    /\ \E k \in 1..Len(commoditydict.keys) :
           commoditydict.keys[k] \notin Range(doc.commodities)
    /\ doc.accounts[2].commodity = FUND

\* the load ended at the entry record that was next to be built
EntryRefused ==
    /\ pc = "failed"
    /\ doc.wellformed /\ doc.root = "gnc-v2"
    /\ AllIn(doc.taxtables, taxtablesdict)
    /\ Len(entriesdict.keys) < Len(doc.entries)

\* the record the load ended at
RefusedEntry == doc.entries[Len(entriesdict.keys) + 1]

TaxtableGuids(d) == {d.taxtables[i].guid : i \in 1..Len(d.taxtables)}

\* C20: the tax table of an Entry is resolved only when the record has the
\* i-taxable element, and is then the Taxtable of the guid the record names;
\* an entry without that element is loaded with taxable and taxtable both
\* empty, whatever tax-table id it carries; a flagged entry whose tax-table
\* id is that of no tax table makes the load fail; a flagged entry with no
\* i-taxtable element makes the load fail with an explicit missing-field
\* error.
C20_TaxtableByFlag ==
    /\ \A i \in 1..Len(entriesdict.keys) :
          LET rec == doc.entries[i]
              e   == Get(entriesdict, rec.guid)
          IN  IF rec.taxable = None
              THEN e.taxable = None /\ e.taxtable = None
              ELSE /\ e.taxable = rec.taxable
                   /\ rec.taxtable \in TaxtableGuids(doc)
                   /\ e.taxtable = Get(taxtablesdict, rec.taxtable)
                   /\ e.taxtable.guid = rec.taxtable
    /\ EntryRefused =>
          /\ RefusedEntry.taxable # None
          /\ RefusedEntry.taxtable \notin TaxtableGuids(doc)
          /\ RefusedEntry.taxtable = None => err = "MissingFieldError"
    /\ (\E i \in 1..Len(doc.entries) :
           /\ doc.entries[i].taxable # None
           /\ doc.entries[i].taxtable \notin TaxtableGuids(doc)) => pc # "done"

\* witness of C20: an entry with no i-taxable element and the id of no tax
\* table was loaded, and the load ended with AttributeError at the next
\* entry, which has the i-taxable element and no i-taxtable element
C20_FlagWithoutTaxtable ==
    /\ EntryRefused /\ err = "AttributeError"
    /\ Len(entriesdict.keys) = 1
    /\ doc.entries[1].taxable = None /\ doc.entries[1].taxtable = Guid("taxtable", 0)
    /\ RefusedEntry.taxable # None /\ RefusedEntry.taxtable = None

=============================================================================
